---- MODULE Spec2Model ----
(***************************************************************************)
(* umongo: the field / schema codec and validation engine.                 *)
(*                                                                         *)
(*   src/umongo/abstract.py   BaseSchema, BaseField                        *)
(*   src/umongo/schema.py     Schema                                       *)
(*   src/umongo/fields.py     the concrete fields                          *)
(*                                                                         *)
(* Part 1 models the projection cache of as_marshmallow_schema, called     *)
(* one call at a time (Spec) and by racing callers (SpecRace).             *)
(* Part 2 models the field codecs as a machine that applies deserialize,   *)
(* serialize_to_mongo and deserialize_from_mongo to values drawn from      *)
(* bounded sets (SpecRound, SpecCodec, SpecEmbedded, SpecReference).       *)
(***************************************************************************)
EXTENDS Integers, Sequences, FiniteSets, TLC

VARIABLES
    cache,          \* BaseSchema._marshmallow_schemas_cache: key -> list of entries
    schemaCache,    \* Schema._marshmallow_schemas_cache: key -> class
    nextId,         \* identity given to the next class object type(...) creates
    calls,          \* the calls that returned, in order: arguments and result
    threads,        \* racing callers of as_marshmallow_schema: position and locals
    fld,            \* the field instance under test, with its lazily resolved cache
    obj,            \* the caller's value, as the caller sees it now
    trail           \* the field operations applied so far: op, input, output

cacheVars == <<cache, schemaCache, nextId, calls, threads>>
fieldVars == <<fld, obj, trail>>
vars == <<cache, schemaCache, nextId, calls, threads, fld, obj, trail>>

(***************************************************************************)
(* Python values. None is a tagged record so that it compares with every   *)
(* dict (a function from keys to values) without a type clash.             *)
(***************************************************************************)
None == [t |-> "none"]
EmptyDict == <<>>

\* Python truthiness of an optional dict: None and {} are falsy.
Truthy(d) == d # None /\ DOMAIN d # {}

\* d.get(k) with the default None.
DictGet(d, k) == IF k \in DOMAIN d THEN d[k] ELSE None

\* what d holds after d.pop(k, None).
DictPop(d, k) == [x \in (DOMAIN d) \ {k} |-> d[x]]

\* what d holds after d.update(e).
DictUpdate(d, e) == [x \in (DOMAIN d) \cup (DOMAIN e) |->
                        IF x \in DOMAIN e THEN e[x] ELSE d[x]]

\* what d holds after d.setdefault(k, v).
DictSetDefault(d, k, v) == IF k \in DOMAIN d THEN d ELSE DictUpdate(d, k :> v)

\* d with the value under k replaced (d[k] is the same object, mutated in place).
DictReplace(d, k, v) == [x \in DOMAIN d |-> IF x = k THEN v ELSE d[x]]

(***************************************************************************)
(* The schemas under test. UserSchema and AddressSchema derive from        *)
(* BaseSchema; UserSchema embeds AddressSchema. DocSchema derives from     *)
(* Schema (schema.py), whose as_marshmallow_schema takes mongo_world alone.*)
(* attribute "" stands for attribute=None (both are falsy).                *)
(* The schemas of the embedded documents of Part 2 go by the document's    *)
(* name: Plain declares x, then g on the document Ghost, which is not      *)
(* registered, then e on the document Base; Base and its offspring declare *)
(* x and a nullable y.                                                     *)
(***************************************************************************)
IntegerFieldOf(name, attribute) ==
    [name |-> name, cls |-> "IntegerField", attribute |-> attribute,
     required |-> FALSE, allow_none |-> FALSE]

SchemaFields(s) ==
    CASE s = "UserSchema" ->
           << IntegerFieldOf("n", "_n"),
              [name |-> "l", cls |-> "ListField", attribute |-> "",
               required |-> FALSE, allow_none |-> FALSE,
               inner |-> IntegerFieldOf("", "")],
              [name |-> "e", cls |-> "EmbeddedField", attribute |-> "",
               required |-> FALSE, allow_none |-> FALSE,
               embedded_schema |-> "AddressSchema"] >>
      [] s = "AddressSchema" -> << IntegerFieldOf("x", "") >>
      [] s = "DocSchema" -> << IntegerFieldOf("id", "_id") >>
      [] s = "Plain" ->
           << IntegerFieldOf("x", ""),
              [name |-> "g", cls |-> "EmbeddedField", attribute |-> "",
               required |-> FALSE, allow_none |-> FALSE, embedded_schema |-> "Ghost"],
              [name |-> "e", cls |-> "EmbeddedField", attribute |-> "",
               required |-> FALSE, allow_none |-> FALSE, embedded_schema |-> "Base"] >>
      [] s \in {"Base", "A", "B"} ->
           << IntegerFieldOf("x", ""),
              [IntegerFieldOf("y", "") EXCEPT !.allow_none = TRUE] >>

BaseSchemaTypes == {"UserSchema", "AddressSchema"}
DocSchemaTypes == {"DocSchema"}

\* the marshmallow class a umongo field class inherits from (the mro walk).
MaClass(cls) ==
    CASE cls = "IntegerField" -> "Integer"
      [] cls = "ListField" -> "List"
      [] cls = "EmbeddedField" -> "Nested"

\* BaseField._extract_marshmallow_field_params
extract_marshmallow_field_params(field, mongo_world) ==
    LET params == [required |-> field.required, allow_none |-> field.allow_none]
    IN  IF mongo_world /\ field.attribute # ""
        THEN DictUpdate(params, [attribute |-> field.attribute])
        ELSE params

(***************************************************************************)
(* as_marshmallow_field. Each builder returns the state it leaves (the     *)
(* cache and the identity counter, which a nested schema call changes),    *)
(* the dict the caller passed as `params` as it is after the call (pop     *)
(* removes keys from the caller's object), and the marshmallow field.      *)
(* A builder's second half takes the result of its inner call as an        *)
(* argument.                                                               *)
(***************************************************************************)
RECURSIVE as_marshmallow_field(_, _, _, _, _, _)
RECURSIVE build_nmspc(_, _, _, _, _, _, _)
RECURSIVE BaseSchema_as_marshmallow_schema(_, _, _, _, _, _, _)

\* `if params: field_kwargs.update(params)`, params being what the pops left.
field_kwargs_update(field_kwargs, params, popped) ==
    IF Truthy(params) THEN DictUpdate(field_kwargs, popped) ELSE field_kwargs

\* `params.pop(k, None)` under `if params:`, `None` under `else:`.
pop_or_none(params, k) == IF Truthy(params) THEN DictGet(params, k) ELSE None

\* BaseField.as_marshmallow_field
BaseField_as_marshmallow_field(st, field, params, mongo_world) ==
    [st |-> st, params |-> params,
     ma |-> [cls |-> MaClass(field.cls),
             kwargs |-> field_kwargs_update(
                            extract_marshmallow_field_params(field, mongo_world),
                            params, params)]]

\* ListField.as_marshmallow_field, line 301: the List around the inner field.
ListField_ma_field(field, params, popped, mongo_world, inner) ==
    [st |-> inner.st, params |-> popped,
     ma |-> [cls |-> "List", inner |-> inner.ma,
             kwargs |-> field_kwargs_update(
                            extract_marshmallow_field_params(field, mongo_world),
                            params, popped)]]

\* ListField.as_marshmallow_field
ListField_as_marshmallow_field(st, field, params, base_schema_cls, check_unknown_fields, mongo_world) ==
    ListField_ma_field(
        field, params,
        IF Truthy(params) THEN DictPop(params, "params") ELSE params,
        mongo_world,
        as_marshmallow_field(st, field.inner, pop_or_none(params, "params"),
                             base_schema_cls, check_unknown_fields, mongo_world))

\* EmbeddedField.as_marshmallow_field, line 583: the Nested around the schema.
EmbeddedField_ma_field(field, params, popped, mongo_world, nested) ==
    [st |-> nested.st, params |-> popped,
     ma |-> [cls |-> "Nested", nested |-> nested.ret.id,
             kwargs |-> field_kwargs_update(
                            extract_marshmallow_field_params(field, mongo_world),
                            params, popped)]]

\* EmbeddedField.as_marshmallow_field (the embedded document class is resolved)
EmbeddedField_as_marshmallow_field(st, field, params, base_schema_cls, check_unknown_fields, mongo_world) ==
    EmbeddedField_ma_field(
        field, params,
        IF Truthy(params) THEN DictPop(DictPop(params, "params"), "meta") ELSE params,
        mongo_world,
        BaseSchema_as_marshmallow_schema(
            st, field.embedded_schema, pop_or_none(params, "params"),
            base_schema_cls, check_unknown_fields, mongo_world,
            pop_or_none(params, "meta")))

\* field.as_marshmallow_field(...): Python's dispatch on the field's class.
as_marshmallow_field(st, field, params, base_schema_cls, check_unknown_fields, mongo_world) ==
    CASE field.cls = "ListField" ->
           ListField_as_marshmallow_field(st, field, params, base_schema_cls,
                                          check_unknown_fields, mongo_world)
      [] field.cls = "EmbeddedField" ->
           EmbeddedField_as_marshmallow_field(st, field, params, base_schema_cls,
                                              check_unknown_fields, mongo_world)
      [] OTHER -> BaseField_as_marshmallow_field(st, field, params, mongo_world)

\* nmspc with the entry of one field added to those of the fields after it.
nmspc_join(name, ma, rest) ==
    [st |-> rest.st, params |-> rest.params,
     nmspc |-> DictUpdate(name :> ma, rest.nmspc)]

\* One field built: params[name] is the caller's per-field dict, so what the
\* builder popped is gone from params too; then the fields after it.
nmspc_step(fs, i, params, base_schema_cls, check_unknown_fields, mongo_world, one) ==
    nmspc_join(fs[i].name, one.ma,
               build_nmspc(one.st, fs, i + 1,
                           IF fs[i].name \in DOMAIN params
                           THEN DictReplace(params, fs[i].name, one.params)
                           ELSE params,
                           base_schema_cls, check_unknown_fields, mongo_world))

\* The dict comprehension building nmspc, from the i-th field on.
build_nmspc(st, fs, i, params, base_schema_cls, check_unknown_fields, mongo_world) ==
    IF i > Len(fs) THEN [st |-> st, params |-> params, nmspc |-> EmptyDict]
    ELSE nmspc_step(fs, i, params, base_schema_cls, check_unknown_fields, mongo_world,
                    as_marshmallow_field(st, fs[i], DictGet(params, fs[i].name),
                                         base_schema_cls, check_unknown_fields,
                                         mongo_world))

(***************************************************************************)
(* BaseSchema.as_marshmallow_schema, in its three steps: the lookup        *)
(* (lines 54-62), the build (63-85) and the store (86-88).                 *)
(***************************************************************************)
BaseSchema_cache_key(s, base_schema_cls, check_unknown_fields, mongo_world) ==
    [cls |-> s, base |-> base_schema_cls, strict |-> check_unknown_fields,
     world |-> mongo_world]

\* `params or {}`, `meta or {}`
OrEmpty(d) == IF Truthy(d) THEN d ELSE EmptyDict

\* The entries of the bucket whose modifiers equal cache_modifiers.
BaseSchema_hits(c, cache_key, cache_modifiers) ==
    IF cache_key \notin DOMAIN c THEN {}
    ELSE {i \in 1..Len(c[cache_key]) : c[cache_key][i].modifiers = cache_modifiers}

Min(S) == CHOOSE i \in S : \A j \in S : i <= j

\* The first entry of the bucket whose modifiers equal cache_modifiers; 0 if none.
BaseSchema_lookup(c, cache_key, cache_modifiers) ==
    IF BaseSchema_hits(c, cache_key, cache_modifiers) = {} THEN 0
    ELSE Min(BaseSchema_hits(c, cache_key, cache_modifiers))

\* Lines 72-73: `if not check_unknown_fields: meta.setdefault('unknown', EXCLUDE)`
meta_setdefault(meta, check_unknown_fields) ==
    IF ~check_unknown_fields THEN DictSetDefault(meta, "unknown", "exclude") ELSE meta

\* Lines 71-85: the class type(name, (base_schema_cls,), nmspc) creates.
BaseSchema_m_schema(id, s, base_schema_cls, mongo_world, meta, nmspc) ==
    [id |-> id,
     name |-> "Marshmallow" \o s,
     base |-> base_schema_cls,
     fields |-> nmspc,
     get_attribute |-> ~mongo_world,
     Meta |-> IF DOMAIN meta # {} THEN meta ELSE None]

\* The entry appended: cache_modifiers is held by reference, so it is params
\* after the field builders' pops and meta after setdefault.
BaseSchema_entry(s, base_schema_cls, mongo_world, meta, f) ==
    [st |-> [cache |-> f.st.cache, nextId |-> f.st.nextId + 1],
     entry |-> [modifiers |-> <<f.params, meta>>,
                ma_schema |-> BaseSchema_m_schema(f.st.nextId, s, base_schema_cls,
                                                  mongo_world, meta, f.nmspc)]]

\* Lines 63-85.
BaseSchema_build(st, s, params, base_schema_cls, check_unknown_fields, mongo_world, meta) ==
    BaseSchema_entry(s, base_schema_cls, mongo_world,
                     meta_setdefault(meta, check_unknown_fields),
                     build_nmspc(st, SchemaFields(s), 1, params, base_schema_cls,
                                 check_unknown_fields, mongo_world))

\* Lines 86-87: setdefault(cache_key, []).append(...)
BaseSchema_store(c, cache_key, entry) ==
    IF cache_key \in DOMAIN c
    THEN [c EXCEPT ![cache_key] = Append(@, entry)]
    ELSE c @@ (cache_key :> <<entry>>)

\* Lines 86-88 after a build: the store and the return.
BaseSchema_store_return(cache_key, b) ==
    [st |-> [cache |-> BaseSchema_store(b.st.cache, cache_key, b.entry),
             nextId |-> b.st.nextId],
     ret |-> b.entry.ma_schema]

\* Lines 59-88 with the key and the lookup's answer in hand.
BaseSchema_hit_or_build(st, s, params, base_schema_cls, check_unknown_fields, mongo_world, meta, cache_key, hit) ==
    IF hit # 0
    THEN [st |-> st, ret |-> st.cache[cache_key][hit].ma_schema]
    ELSE BaseSchema_store_return(
             cache_key,
             BaseSchema_build(st, s, params, base_schema_cls, check_unknown_fields,
                              mongo_world, meta))

BaseSchema_as_marshmallow_schema(st, s, params, base_schema_cls, check_unknown_fields, mongo_world, meta) ==
    BaseSchema_hit_or_build(
        st, s, OrEmpty(params), base_schema_cls, check_unknown_fields, mongo_world,
        OrEmpty(meta),
        BaseSchema_cache_key(s, base_schema_cls, check_unknown_fields, mongo_world),
        BaseSchema_lookup(st.cache,
                          BaseSchema_cache_key(s, base_schema_cls,
                                               check_unknown_fields, mongo_world),
                          <<OrEmpty(params), OrEmpty(meta)>>))

(***************************************************************************)
(* Schema.as_marshmallow_schema (schema.py): one class per key, no         *)
(* overrides. MA_BASE_SCHEMA_CLS is the class attribute of the schema.     *)
(***************************************************************************)
Schema_cache_key(s, mongo_world) ==
    [cls |-> s, base |-> "MA_BASE_SCHEMA_CLS", world |-> mongo_world]

\* Lines 35-45: the class type(name, (MA_BASE_SCHEMA_CLS,), nmspc) creates.
Schema_m_schema(s, mongo_world, f) ==
    [st |-> [cache |-> f.st.cache, nextId |-> f.st.nextId + 1],
     ma_schema |-> [id |-> f.st.nextId,
                    name |-> "Marshmallow" \o s,
                    base |-> "MA_BASE_SCHEMA_CLS",
                    fields |-> f.nmspc,
                    get_attribute |-> ~mongo_world,
                    Meta |-> None]]

\* Lines 31-45: the fields are built with mongo_world alone.
Schema_build(st, s, mongo_world) ==
    Schema_m_schema(s, mongo_world,
                    build_nmspc(st, SchemaFields(s), 1, EmptyDict, "MaSchema", TRUE,
                                mongo_world))

\* Line 46: the key's slot is overwritten.
Schema_store(sc, cache_key, m_schema) ==
    IF cache_key \in DOMAIN sc
    THEN [sc EXCEPT ![cache_key] = m_schema]
    ELSE sc @@ (cache_key :> m_schema)


(***************************************************************************)
(* Part 1: the callers of as_marshmallow_schema.                           *)
(* Each call passes dict literals: the objects are the call's own, so what *)
(* a later call compares itself with is the entry as the earlier call      *)
(* left it.                                                                *)
(***************************************************************************)
MaxCalls == 3
NumCallers == 2
MaxLaterCalls == 1

UserParams == { None,
                [n |-> [required |-> TRUE]],
                [l |-> [params |-> [required |-> TRUE]]],
                [l |-> EmptyDict],
                [e |-> [params |-> [x |-> [required |-> TRUE]]]] }
AddressParams == { None, [x |-> [required |-> TRUE]] }
Metas == { None, [ordered |-> TRUE] }

ParamsOf(s) == IF s = "UserSchema" THEN UserParams ELSE AddressParams

BaseArgs == UNION { [kind : {"BaseSchema"}, cls : {s}, params : ParamsOf(s),
                     base : {"MaSchema"}, strict : BOOLEAN, world : BOOLEAN,
                     meta : Metas] : s \in BaseSchemaTypes }
SchemaArgs == [kind : {"Schema"}, cls : DocSchemaTypes, world : BOOLEAN]

\* Arguments no builder mutates: strict, and no nested 'params' entry.
PlainParams == { None, [n |-> [required |-> TRUE]], [x |-> [required |-> TRUE]] }
RaceArgs == { a \in BaseArgs : a.strict /\ a.params \in PlainParams } \cup SchemaArgs

Callers == 1..NumCallers
AllDone == \A t \in Callers : threads[t].pc = "done"

Init ==
    /\ cache = EmptyDict
    /\ schemaCache = EmptyDict
    /\ nextId = 1
    /\ calls = <<>>
    /\ threads = [t \in Callers |-> [pc |-> "done", args |-> None, entry |-> None]]
    /\ fld = None
    /\ obj = None
    /\ trail = <<>>

\* One whole call of BaseSchema.as_marshmallow_schema.
CallBaseSchema ==
    \E a \in BaseArgs :
        /\ Len(calls) < MaxCalls
        /\ LET r == BaseSchema_as_marshmallow_schema(
                        [cache |-> cache, nextId |-> nextId], a.cls, a.params,
                        a.base, a.strict, a.world, a.meta)
           IN  /\ cache' = r.st.cache
               /\ nextId' = r.st.nextId
               /\ calls' = Append(calls, [args |-> a, ret |-> r.ret])
        /\ UNCHANGED <<schemaCache, threads, fld, obj, trail>>

\* One whole call of Schema.as_marshmallow_schema.
CallSchema ==
    \E a \in SchemaArgs :
        /\ Len(calls) < MaxCalls
        /\ LET cache_key == Schema_cache_key(a.cls, a.world)
           IN  IF cache_key \in DOMAIN schemaCache
               THEN /\ calls' = Append(calls, [args |-> a,
                                               ret |-> schemaCache[cache_key]])
                    /\ UNCHANGED <<cache, schemaCache, nextId>>
               ELSE LET b == Schema_build([cache |-> cache, nextId |-> nextId],
                                          a.cls, a.world)
                    IN  /\ cache' = b.st.cache
                        /\ nextId' = b.st.nextId
                        /\ schemaCache' = Schema_store(schemaCache, cache_key,
                                                       b.ma_schema)
                        /\ calls' = Append(calls, [args |-> a, ret |-> b.ma_schema])
        /\ UNCHANGED <<threads, fld, obj, trail>>

Next == CallBaseSchema \/ CallSchema

Spec == Init /\ [][Next]_vars

(***************************************************************************)
(* Racing callers: each runs one call step by step, and the steps of       *)
(* different callers interleave freely (no lock is taken anywhere). A call *)
(* is a lookup, a build and a store; the build of a schema with an         *)
(* embedded field makes the nested call on the way, which is again a       *)
(* lookup, a build and a store. The schemas nest one deep.                 *)
(***************************************************************************)
InitRace ==
    /\ cache = EmptyDict
    /\ schemaCache = EmptyDict
    /\ nextId = 1
    /\ calls = <<>>
    /\ threads = [t \in Callers |->
                     [pc |-> "idle", args |-> None, entry |-> None, nested |-> None]]
    /\ fld = None
    /\ obj = None
    /\ trail = <<>>

\* The embedded fields of a schema.
EmbeddedFieldsOf(s) == {i \in 1..Len(SchemaFields(s)) : SchemaFields(s)[i].cls = "EmbeddedField"}
HasNested(a) == a.kind = "BaseSchema" /\ EmbeddedFieldsOf(a.cls) # {}
NestedField(a) == SchemaFields(a.cls)[Min(EmbeddedFieldsOf(a.cls))]

\* The arguments of the nested call EmbeddedField.as_marshmallow_field makes
\* inside the call with arguments a.
NestedArgs(a) ==
    [kind |-> "BaseSchema", cls |-> NestedField(a).embedded_schema,
     params |-> pop_or_none(DictGet(OrEmpty(a.params), NestedField(a).name), "params"),
     base |-> a.base, strict |-> a.strict, world |-> a.world,
     meta |-> pop_or_none(DictGet(OrEmpty(a.params), NestedField(a).name), "meta")]

RaceKey(a) == BaseSchema_cache_key(a.cls, a.base, a.strict, a.world)
RaceHit(a) == BaseSchema_lookup(cache, RaceKey(a), <<OrEmpty(a.params), OrEmpty(a.meta)>>)

\* The lookup: return the cached class, or go on to build.
RaceLookup(t) ==
    /\ threads[t].pc = "idle"
    /\ \E a \in RaceArgs :
         LET found ==
               IF a.kind = "Schema"
               THEN IF Schema_cache_key(a.cls, a.world) \in DOMAIN schemaCache
                    THEN schemaCache[Schema_cache_key(a.cls, a.world)] ELSE None
               ELSE IF RaceHit(a) # 0 THEN cache[RaceKey(a)][RaceHit(a)].ma_schema ELSE None
         IN  IF found # None
             THEN /\ calls' = Append(calls, [args |-> a, ret |-> found])
                  /\ threads' = [threads EXCEPT ![t] =
                                    [pc |-> "done", args |-> a, entry |-> None,
                                     nested |-> None]]
             ELSE /\ calls' = calls
                  /\ threads' = [threads EXCEPT ![t] =
                                    [pc |-> IF HasNested(a) THEN "nested" ELSE "build",
                                     args |-> a, entry |-> None, nested |-> None]]
    /\ UNCHANGED <<cache, schemaCache, nextId, fld, obj, trail>>

\* The lookup of the nested call: take the cached class, or go on to build it.
RaceNestedLookup(t) ==
    /\ threads[t].pc = "nested"
    /\ IF RaceHit(NestedArgs(threads[t].args)) # 0
       THEN threads' = [threads EXCEPT
                           ![t].pc = "build",
                           ![t].nested = cache[RaceKey(NestedArgs(threads[t].args))]
                                              [RaceHit(NestedArgs(threads[t].args))]]
       ELSE threads' = [threads EXCEPT ![t].pc = "nested_build"]
    /\ UNCHANGED <<cache, schemaCache, nextId, calls, fld, obj, trail>>

\* The build of the nested call: the class is created, not yet stored.
RaceNestedBuild(t) ==
    /\ threads[t].pc = "nested_build"
    /\ LET a == NestedArgs(threads[t].args)
           b == BaseSchema_build([cache |-> cache, nextId |-> nextId], a.cls,
                                 OrEmpty(a.params), a.base, a.strict, a.world,
                                 OrEmpty(a.meta))
       IN  /\ nextId' = b.st.nextId
           /\ threads' = [threads EXCEPT ![t].pc = "nested_store", ![t].nested = b.entry]
    /\ UNCHANGED <<cache, schemaCache, calls, fld, obj, trail>>

\* The store of the nested call, which then returns its class to the build.
RaceNestedStore(t) ==
    /\ threads[t].pc = "nested_store"
    /\ cache' = BaseSchema_store(cache, RaceKey(NestedArgs(threads[t].args)),
                                 threads[t].nested)
    /\ threads' = [threads EXCEPT ![t].pc = "build"]
    /\ UNCHANGED <<schemaCache, nextId, calls, fld, obj, trail>>

\* What the nested call of this caller's build answers: the entry the caller
\* took or built, under its key and nothing else.
NestedAnswer(t) ==
    RaceKey(NestedArgs(threads[t].args)) :> <<threads[t].nested>>

\* The build: the class is created, not yet stored. The nested call has
\* returned by now and the fields are built around its class; the shared
\* cache is not touched.
RaceBuild(t) ==
    /\ threads[t].pc = "build"
    /\ LET a == threads[t].args
           st == [cache |-> IF HasNested(a) THEN NestedAnswer(t) ELSE cache,
                  nextId |-> nextId]
       IN  IF a.kind = "Schema"
           THEN LET b == Schema_build(st, a.cls, a.world)
                IN  /\ nextId' = b.st.nextId
                    /\ threads' = [threads EXCEPT ![t].pc = "store",
                                                  ![t].entry = b.ma_schema]
           ELSE LET b == BaseSchema_build(st, a.cls, OrEmpty(a.params), a.base,
                                          a.strict, a.world, OrEmpty(a.meta))
                IN  /\ nextId' = b.st.nextId
                    /\ threads' = [threads EXCEPT ![t].pc = "store",
                                                  ![t].entry = b.entry]
    /\ UNCHANGED <<cache, schemaCache, calls, fld, obj, trail>>

\* The store, and the return of the class this caller built.
RaceStore(t) ==
    /\ threads[t].pc = "store"
    /\ LET a == threads[t].args
           e == threads[t].entry
       IN  IF a.kind = "Schema"
           THEN /\ schemaCache' = Schema_store(schemaCache,
                                               Schema_cache_key(a.cls, a.world), e)
                /\ cache' = cache
                /\ calls' = Append(calls, [args |-> a, ret |-> e])
           ELSE /\ cache' = BaseSchema_store(
                                cache,
                                BaseSchema_cache_key(a.cls, a.base, a.strict, a.world),
                                e)
                /\ schemaCache' = schemaCache
                /\ calls' = Append(calls, [args |-> a, ret |-> e.ma_schema])
    /\ threads' = [threads EXCEPT ![t].pc = "done"]
    /\ UNCHANGED <<nextId, fld, obj, trail>>

\* A call made after every racing caller has returned.
LaterCall ==
    /\ AllDone
    /\ Len(calls) < NumCallers + MaxLaterCalls
    /\ \E a \in RaceArgs :
         IF a.kind = "Schema"
         THEN LET cache_key == Schema_cache_key(a.cls, a.world)
              IN  IF cache_key \in DOMAIN schemaCache
                  THEN /\ calls' = Append(calls, [args |-> a,
                                                  ret |-> schemaCache[cache_key]])
                       /\ UNCHANGED <<cache, schemaCache, nextId>>
                  ELSE LET b == Schema_build([cache |-> cache, nextId |-> nextId],
                                             a.cls, a.world)
                       IN  /\ cache' = b.st.cache
                           /\ nextId' = b.st.nextId
                           /\ schemaCache' = Schema_store(schemaCache, cache_key,
                                                          b.ma_schema)
                           /\ calls' = Append(calls, [args |-> a,
                                                      ret |-> b.ma_schema])
         ELSE LET r == BaseSchema_as_marshmallow_schema(
                           [cache |-> cache, nextId |-> nextId], a.cls, a.params,
                           a.base, a.strict, a.world, a.meta)
              IN  /\ cache' = r.st.cache
                  /\ nextId' = r.st.nextId
                  /\ schemaCache' = schemaCache
                  /\ calls' = Append(calls, [args |-> a, ret |-> r.ret])
    /\ UNCHANGED <<threads, fld, obj, trail>>

NextRace ==
    \/ \E t \in Callers : RaceLookup(t)
    \/ \E t \in Callers : RaceNestedLookup(t)
    \/ \E t \in Callers : RaceNestedBuild(t)
    \/ \E t \in Callers : RaceNestedStore(t)
    \/ \E t \in Callers : RaceBuild(t)
    \/ \E t \in Callers : RaceStore(t)
    \/ LaterCall

SpecRace == InitRace /\ [][NextRace]_vars


(***************************************************************************)
(* Properties of the projection cache.                                    *)
(***************************************************************************)
SameKey(a, b) ==
    /\ a.kind = b.kind
    /\ a.cls = b.cls
    /\ a.world = b.world
    /\ a.kind = "BaseSchema" => (a.base = b.base /\ a.strict = b.strict)

\* The overrides and meta overrides of a call, as the caller passed them
\* (Schema.as_marshmallow_schema takes none).
Overrides(a) == IF a.kind = "BaseSchema" THEN <<a.params, a.meta>> ELSE <<None, None>>

\* C1: in any sequence of calls, two calls with the same schema type, base type,
\* strict_unknown_fields flag and world flag and with equal overrides and meta
\* overrides return the identical object, whatever the flags are and whether or
\* not the overrides carry nested per-field 'params' entries.
C1_EqualArgumentsSameObject ==
    \A i, j \in 1..Len(calls) :
        (SameKey(calls[i].args, calls[j].args)
            /\ Overrides(calls[i].args) = Overrides(calls[j].args))
        => calls[i].ret.id = calls[j].ret.id

\* C2: two calls under the same hashable key whose overrides or meta overrides
\* differ, as the caller passed them, return two distinct objects: no call is
\* handed the projection another call built from different overrides.
C2_DifferentOverridesDistinctObjects ==
    \A i, j \in 1..Len(calls) :
        (SameKey(calls[i].args, calls[j].args)
            /\ Overrides(calls[i].args) # Overrides(calls[j].args))
        => calls[i].ret.id # calls[j].ret.id

\* C3: once the racing callers of one projection have all returned, the cache
\* holds at most one entry for a key and its overrides: the duplicate the
\* losing caller built is not retained.
C3_RaceRetainsOneEntry ==
    AllDone =>
        \A k \in DOMAIN cache :
            \A i, j \in 1..Len(cache[k]) :
                cache[k][i].modifiers = cache[k][j].modifiers => i = j


(***************************************************************************)
(* Part 2: the fields.                                                     *)
(*                                                                         *)
(* Values are records tagged by t. A datetime is its wall clock in whole   *)
(* seconds since an epoch (sec), its microsecond component (micro) and,    *)
(* when aware, its UTC offset in hours (off); a date is a day number.      *)
(* Python's == on them is PyEq.                                            *)
(***************************************************************************)
missing == [t |-> "missing"]

Int_(n) == [t |-> "int", n |-> n]
NaiveDateTime(sec, micro) ==
    [t |-> "datetime", sec |-> sec, micro |-> micro, aware |-> FALSE, off |-> 0]
AwareDateTime(sec, micro, off) ==
    [t |-> "datetime", sec |-> sec, micro |-> micro, aware |-> TRUE, off |-> off]
Date(day) == [t |-> "date", day |-> day]
Decimal(coeff, exp) == [t |-> "Decimal", coeff |-> coeff, exp |-> exp]
ObjectId(oid) == [t |-> "ObjectId", oid |-> oid]
Str(s) == [t |-> "str", s |-> s]
PlainList(items) == [t |-> "list", items |-> items]

\* A dict keeps its keys in insertion order (keys) beside its items (d):
\* PlainDict(keys, d) is the dict into which the keys of d were inserted in
\* the order keys. Equality of dicts (PyEq) does not look at the order.
PlainDict(keys, d) == [t |-> "dict", d |-> d, keys |-> keys]

\* Every order in which the keys of a set can have been inserted, and the
\* dicts that hold the items d in each of them.
KeyOrders(S) ==
    {s \in [1..Cardinality(S) -> S] : \A i, j \in 1..Cardinality(S) : s[i] = s[j] => i = j}
PlainDicts(d) == {PlainDict(keys, d) : keys \in KeyOrders(DOMAIN d)}

\* The dict literal with the items d, its keys written in the order they
\* have in order.
PlainDictIn(order, d) == PlainDict(SelectSeq(order, LAMBDA k : k \in DOMAIN d), d)

\* ValidationError(message) and ValidationError(dict): exc.messages of the
\* first is the list of that string, of the second the dict. Messages are
\* tagged (list, map) so that both can sit in one map.
ValidationError(msg) == [t |-> "error", kind |-> "ValidationError", msg |-> msg]
ErrorMap(m) == [t |-> "error", kind |-> "ValidationError", msg |-> "", messages |-> m]
PyError(kind) == [t |-> "error", kind |-> kind, msg |-> ""]

\* exc.messages
messages(exc) ==
    IF "messages" \in DOMAIN exc THEN [map |-> exc.messages] ELSE [list |-> <<exc.msg>>]

IsError(v) == v.t = "error"
IsValidationError(v) == IsError(v) /\ v.kind = "ValidationError"

\* isinstance(value, list) and isinstance(value, dict): the tracked List and
\* Dict are subclasses of list and dict.
IsList(v) == v.t \in {"list", "List"}
IsDict(v) == v.t \in {"dict", "Dict"}

SecondsPerDay == 86400
SecondsPerHour == 3600

\* isinstance(value, dt.datetime); dt.datetime is a subclass of dt.date.
IsDateTime(v) == v.t = "datetime"
IsDate(v) == v.t \in {"date", "datetime"}

\* The instant of an aware datetime, in seconds of UTC.
UtcSeconds(v) == v.sec - v.off * SecondsPerHour

\* An int or a Decimal is coefficient * 10^exponent; Scaled is that value
\* times 10^scale, an integer when scale is large enough. Two numbers are
\* equal when their values are: Decimal('15') == Decimal('15.00').
IsNumber(v) == v.t \in {"int", "Decimal"}
Exponent(v) == IF v.t = "Decimal" THEN v.exp ELSE 0
Coefficient(v) == IF v.t = "Decimal" THEN v.coeff ELSE v.n
Scaled(v, scale) == Coefficient(v) * 10 ^ (Exponent(v) + scale)
NumEq(a, b, scale) == Scaled(a, scale) = Scaled(b, scale)

\* Python's == on two values. Two naive datetimes compare by their fields, two
\* aware ones by their instants, a naive and an aware one are unequal, and a
\* date never equals a datetime. A tracked List equals a list with equal items,
\* and numbers compare by value.
RECURSIVE PyEq(_, _)
PyEq(a, b) ==
    CASE a.t = "datetime" /\ b.t = "datetime" ->
           IF a.aware # b.aware THEN FALSE
           ELSE IF a.aware THEN UtcSeconds(a) = UtcSeconds(b) /\ a.micro = b.micro
           ELSE a.sec = b.sec /\ a.micro = b.micro
      [] a.t \in {"list", "List"} /\ b.t \in {"list", "List"} ->
           /\ Len(a.items) = Len(b.items)
           /\ \A i \in 1..Len(a.items) : PyEq(a.items[i], b.items[i])
      [] a.t \in {"dict", "Dict"} /\ b.t \in {"dict", "Dict"} ->
           /\ DOMAIN a.d = DOMAIN b.d
           /\ \A k \in DOMAIN a.d : PyEq(a.d[k], b.d[k])
      [] IsNumber(a) /\ IsNumber(b) ->
           NumEq(a, b, IF Exponent(a) < Exponent(b) THEN -Exponent(a) ELSE -Exponent(b))
      [] OTHER -> a.t = b.t /\ a = b

(***************************************************************************)
(* The date-time family.                                                   *)
(***************************************************************************)
\* A rounding that truncates to the thousand below.
round_thousand_floor(n) == (n \div 1000) * 1000

\* Python's round(n, -3) on an int: to the nearest thousand, a tie going to
\* the even multiple.
round_thousand(n) ==
    LET q == n \div 1000
        r == n % 1000
    IN  IF r > 500 \/ (r = 500 /\ q % 2 = 1) THEN (q + 1) * 1000 ELSE q * 1000

\* A rounding whose carry adds the second and leaves the microseconds as they were.
round_to_millisecond_keep_micro(datetime) ==
    IF round_thousand(datetime.micro) = 1000000
    THEN [datetime EXCEPT !.sec = @ + 1]
    ELSE [datetime EXCEPT !.micro = round_thousand(datetime.micro)]

\* _round_to_millisecond
round_to_millisecond(datetime) ==
    IF round_thousand(datetime.micro) = 1000000
    THEN [datetime EXCEPT !.micro = 0, !.sec = @ + 1]
    ELSE [datetime EXCEPT !.micro = round_thousand(datetime.micro)]

\* DateTimeField._deserialize, NaiveDateTimeField._deserialize and
\* AwareDateTimeField._deserialize: the same body. A value that is no datetime
\* goes to marshmallow's parser, which takes strings; none is given one here.
DateTimeField_deserialize(field, value) ==
    IF IsDateTime(value) THEN round_to_millisecond(value)
    ELSE ValidationError("Not a valid datetime.")

\* value.replace(tzinfo=dt.timezone.utc)
replace_tzinfo_utc(value) == [value EXCEPT !.aware = TRUE, !.off = 0]

\* value.astimezone(tz) on an aware value: the same instant on tz's clock.
astimezone(value, off) ==
    [value EXCEPT !.sec = UtcSeconds(value) + off * SecondsPerHour, !.off = off]

\* AwareDateTimeField._deserialize_from_mongo
AwareDateTimeField_deserialize_from_mongo(field, value) ==
    IF field.default_timezone # None
    THEN astimezone(replace_tzinfo_utc(value), field.default_timezone.off)
    ELSE replace_tzinfo_utc(value)

\* DateField._deserialize: a datetime is a date and is returned as it is.
DateField_deserialize(field, value) ==
    IF IsDate(value) THEN value ELSE ValidationError("Not a valid date.")

\* DateField._serialize_to_mongo: dt.datetime(obj.year, obj.month, obj.day)
DateField_serialize_to_mongo(field, obj_) ==
    IF obj_.t = "date" THEN NaiveDateTime(obj_.day * SecondsPerDay, 0)
    ELSE NaiveDateTime((obj_.sec \div SecondsPerDay) * SecondsPerDay, 0)

\* DateField._deserialize_from_mongo: value.date()
DateField_deserialize_from_mongo(field, value) == Date(value.sec \div SecondsPerDay)

(***************************************************************************)
(* Decimal.                                                                *)
(***************************************************************************)
\* DecimalField._serialize_to_mongo: Decimal128(obj) keeps coefficient and exponent.
DecimalField_serialize_to_mongo(field, obj_) ==
    [t |-> "Decimal128", coeff |-> obj_.coeff, exp |-> obj_.exp]

\* DecimalField._deserialize_from_mongo: value.to_decimal()
DecimalField_deserialize_from_mongo(field, value) == Decimal(value.coeff, value.exp)


(***************************************************************************)
(* Containers. A list in storage is a sequence, a map a function from keys *)
(* to values with the order its keys were inserted in; List(inner, xs) and *)
(* Dict(key_field, value_field, d) are the tracked containers, which hold  *)
(* the same items.                                                         *)
(***************************************************************************)
List(items) == [t |-> "List", items |-> items]
Dict(keys, d) == [t |-> "Dict", d |-> d, keys |-> keys]
Dicts(d) == {Dict(keys, d) : keys \in KeyOrders(DOMAIN d)}

\* The characters of a string. The strings of this model that are longer
\* than one character are listed; every other one is a single character.
Chars(s) ==
    CASE s = "" -> <<>>
      [] s = "ab" -> <<"a", "b">>
      [] s = "id" -> <<"i", "d">>
      [] s = "cls" -> <<"c", "l", "s">>
      [] s = "_id" -> <<"_", "i", "d">>
      [] s = "_cls" -> <<"_", "c", "l", "s">>
      [] s = "junk" -> <<"j", "u", "n", "k">>
      [] s = "Base" -> <<"B", "a", "s", "e">>
      [] s = "extra" -> <<"e", "x", "t", "r", "a">>
      [] s = "Plain" -> <<"P", "l", "a", "i", "n">>
      [] OTHER -> <<s>>

\* for each in value: a list yields its items, a dict its keys in insertion
\* order, a str its characters; nothing else drawn here is iterable.
IsIterable(v) == v.t \in {"list", "List", "dict", "Dict", "str"}
Iterate(v) ==
    CASE v.t \in {"list", "List"} -> v.items
      [] v.t \in {"dict", "Dict"} -> [i \in 1..Len(v.keys) |-> Str(v.keys[i])]
      [] v.t = "str" -> [i \in 1..Len(Chars(v.s)) |-> Str(Chars(v.s)[i])]

\* not bool(value), for a value handed to a container's storage decoder:
\* None, missing, zero, the empty string and the empty containers.
Falsy(value) ==
    \/ value = None
    \/ value = missing
    \/ value.t = "int" /\ value.n = 0
    \/ value.t = "str" /\ value.s = ""
    \/ value.t = "Decimal" /\ value.coeff = 0
    \/ value.t \in {"list", "List"} /\ value.items = <<>>
    \/ value.t \in {"dict", "Dict"} /\ DOMAIN value.d = {}

(***************************************************************************)
(* The registry of documents and embedded documents, and the types the     *)
(* reference fields build.                                                 *)
(***************************************************************************)
\* The documents T and U, and T1, a subclass of T that shares its collection.
RegisteredDocuments == {"T", "T1", "U"}
RegisteredEmbeddedDocuments == {"Base", "A", "B", "Plain"}

\* The registered subclasses of a document class.
document_subclasses(cls) == IF cls = "T" THEN {"T1"} ELSE {}

\* instance.retrieve_document(name): the class, or "" where it raises
\* NotRegisteredDocumentError.
retrieve_document(name) == IF name \in RegisteredDocuments THEN name ELSE ""
retrieve_embedded_document(name) ==
    IF name \in RegisteredEmbeddedDocuments THEN name ELSE ""

\* document_cls.collection.name
collection_name(cls) == IF cls \in {"T", "T1"} THEN "t" ELSE "u"

\* embedded_document_cls.opts.offspring, by declared name.
offspring(cls) == IF cls = "Base" THEN {"A", "B"} ELSE {}

DBRef(collection, id) == [t |-> "DBRef", collection |-> collection, id |-> id]
Document(cls, pk, is_created) ==
    [t |-> "Document", cls |-> cls, pk |-> pk, is_created |-> is_created]
EmbeddedDocument(cls, data) == [t |-> "EmbeddedDocument", cls |-> cls, data |-> data]

\* isinstance(value, document_cls), for a document: an instance of the class
\* or of a subclass of it.
IsDocumentInstance(value, cls) ==
    value.t = "Document" /\ (value.cls = cls \/ value.cls \in document_subclasses(cls))

\* reference_cls(document_cls, pk); rcls is the class of the reference object.
Reference(reference_cls, document_cls_, pk) ==
    [t |-> "Reference", rcls |-> reference_cls, document_cls |-> document_cls_, pk |-> pk]

\* isinstance(value, reference_cls) for a Reference value: MyReference is a
\* subclass of Reference.
IsReferenceInstance(value, reference_cls) ==
    value.rcls = reference_cls \/ reference_cls = "Reference"

\* bson.ObjectId(value): an ObjectId is copied, anything else drawn here is no
\* identifier (InvalidId for a string, TypeError otherwise).
bson_ObjectId(value) ==
    CASE value.t = "ObjectId" -> value
      [] value.t = "str" -> PyError("InvalidId")
      [] OTHER -> PyError("TypeError")

\* The parent class's _deserialize of the reference fields: the identifier
\* parser, which turns both failures into a validation error.
ObjectId_deserialize(value) ==
    IF IsError(bson_ObjectId(value)) THEN ValidationError("Invalid ObjectId.")
    ELSE bson_ObjectId(value)

(***************************************************************************)
(* ReferenceField. Each operation returns its result (ret) and the field   *)
(* after it (fld): document_cls resolves the target lazily and keeps it.   *)
(***************************************************************************)
\* ReferenceField.document_cls, the value returned.
document_cls(field) ==
    IF field._document_cls # "" THEN field._document_cls
    ELSE retrieve_document(field.document)

\* ReferenceField.document_cls, the field after the property was read.
document_cls_resolved(field) == [field EXCEPT !._document_cls = document_cls(field)]

Returns(ret, field) == [ret |-> ret, fld |-> field]

\* The last two lines of ReferenceField._deserialize: the identifier is
\* parsed, and a parse that fails leaves the field as the branch before it
\* left it.
ReferenceField_wrap(field, id) ==
    IF IsError(id) THEN Returns(id, field)
    ELSE IF document_cls(field) = "" THEN Returns(PyError("NotRegisteredDocumentError"), field)
    ELSE Returns(Reference(field.reference_cls, document_cls(field), id),
                 document_cls_resolved(field))

\* The branches of ReferenceField._deserialize that read self.document_cls.
ReferenceField_deserialize_typed(field, value) ==
    CASE document_cls(field) = "" -> Returns(PyError("NotRegisteredDocumentError"), field)
      [] value.t = "Reference" /\ document_cls(field) # "" ->
           IF value.document_cls # document_cls(field)
           THEN Returns(ValidationError("reference expected."), document_cls_resolved(field))
           ELSE IF ~IsReferenceInstance(value, field.reference_cls)
           THEN Returns(Reference(field.reference_cls, value.document_cls, value.pk),
                        document_cls_resolved(field))
           ELSE Returns(value, document_cls_resolved(field))
      [] value.t = "Document" /\ document_cls(field) # "" ->
           IF IsDocumentInstance(value, document_cls(field))
           THEN IF ~value.is_created
                THEN Returns(ValidationError("Cannot reference a document that has not been created yet."),
                             document_cls_resolved(field))
                ELSE ReferenceField_wrap(document_cls_resolved(field),
                                         ObjectId_deserialize(value.pk))
           ELSE Returns(ValidationError("reference expected."), document_cls_resolved(field))

\* ReferenceField._deserialize. The DBRef branch reads the private slot
\* _document_cls, which is None until the property was read once, and formats
\* its message with a positional argument for a named placeholder. Every other
\* value that is not None reaches a test that reads the property document_cls,
\* which resolves the target (or raises) before the identifier is parsed.
ReferenceField_deserialize(field, value) ==
    CASE value = None -> Returns(None, field)
      [] value.t = "DBRef" ->
           IF field._document_cls = "" THEN Returns(PyError("AttributeError"), field)
           ELSE IF collection_name(field._document_cls) # value.collection
           THEN Returns(PyError("KeyError"), field)
           ELSE ReferenceField_wrap(field, ObjectId_deserialize(value.id))
      [] value.t \in {"Reference", "Document"} -> ReferenceField_deserialize_typed(field, value)
      [] OTHER ->
           IF document_cls(field) = ""
           THEN Returns(PyError("NotRegisteredDocumentError"), field)
           ELSE ReferenceField_wrap(document_cls_resolved(field), ObjectId_deserialize(value))

\* An encoder that emits the reference and not its identifier.
ReferenceField_serialize_to_mongo_whole(field, obj_) == obj_

\* ReferenceField._serialize_to_mongo
ReferenceField_serialize_to_mongo(field, obj_) ==
    IF obj_.t \in {"Reference", "Document"} THEN obj_.pk ELSE PyError("AttributeError")

\* ReferenceField._deserialize_from_mongo
ReferenceField_deserialize_from_mongo(field, value) ==
    IF document_cls(field) = "" THEN Returns(PyError("NotRegisteredDocumentError"), field)
    ELSE Returns(Reference(field.reference_cls, document_cls(field), value),
                 document_cls_resolved(field))

(***************************************************************************)
(* GenericReferenceField.                                                  *)
(***************************************************************************)
\* GenericReferenceField._document_cls(class_name)
GenericReferenceField_document_cls(class_name) ==
    IF class_name.t = "str" /\ retrieve_document(class_name.s) # ""
    THEN Str(retrieve_document(class_name.s))
    ELSE ValidationError("Unknown document.")

\* The dict branch of GenericReferenceField._deserialize. ObjectId(value['id'])
\* raises InvalidId or TypeError, neither of which is the ValueError the
\* except clause names.
GenericReferenceField_deserialize_dict(field, value) ==
    IF DOMAIN value.d # {"cls", "id"}
    THEN ValidationError("Generic reference must have id and cls fields.")
    ELSE IF IsError(bson_ObjectId(value.d["id"]))
    THEN IF bson_ObjectId(value.d["id"]).kind = "ValueError"
         THEN ValidationError("Invalid id field.")
         ELSE bson_ObjectId(value.d["id"])
    ELSE IF IsError(GenericReferenceField_document_cls(value.d["cls"]))
    THEN GenericReferenceField_document_cls(value.d["cls"])
    ELSE Reference(field.reference_cls,
                   GenericReferenceField_document_cls(value.d["cls"]).s,
                   bson_ObjectId(value.d["id"]))

\* A _deserialize that wraps a document without asking whether it was created.
GenericReferenceField_deserialize_unchecked(field, value) ==
    CASE value = None -> None
      [] value.t = "Reference" ->
           IF ~IsReferenceInstance(value, field.reference_cls)
           THEN Reference(field.reference_cls, value.document_cls, value.pk)
           ELSE value
      [] value.t = "Document" -> Reference(field.reference_cls, value.cls, value.pk)
      [] IsDict(value) -> GenericReferenceField_deserialize_dict(field, value)
      [] OTHER -> ValidationError("Invalid value for generic reference field.")

\* GenericReferenceField._deserialize
GenericReferenceField_deserialize(field, value) ==
    CASE value = None -> None
      [] value.t = "Reference" ->
           IF ~IsReferenceInstance(value, field.reference_cls)
           THEN Reference(field.reference_cls, value.document_cls, value.pk)
           ELSE value
      [] value.t = "Document" ->
           IF ~value.is_created
           THEN ValidationError("Cannot reference a document that has not been created yet.")
           ELSE Reference(field.reference_cls, value.cls, value.pk)
      [] IsDict(value) -> GenericReferenceField_deserialize_dict(field, value)
      [] OTHER -> ValidationError("Invalid value for generic reference field.")

\* GenericReferenceField._serialize_to_mongo
GenericReferenceField_serialize_to_mongo(field, obj_) ==
    IF obj_.t = "Reference"
    THEN PlainDict(<<"_id", "_cls">>, [_id |-> obj_.pk, _cls |-> Str(obj_.document_cls)])
    ELSE PyError("AttributeError")

\* GenericReferenceField._deserialize_from_mongo: the class is looked up
\* before the identifier is read.
GenericReferenceField_deserialize_from_mongo(field, value) ==
    IF ~IsDict(value) THEN PyError("TypeError")
    ELSE IF "_cls" \notin DOMAIN value.d THEN PyError("KeyError")
    ELSE IF IsError(GenericReferenceField_document_cls(value.d["_cls"]))
    THEN GenericReferenceField_document_cls(value.d["_cls"])
    ELSE IF "_id" \notin DOMAIN value.d THEN PyError("KeyError")
    ELSE Reference(field.reference_cls,
                   GenericReferenceField_document_cls(value.d["_cls"]).s,
                   value.d["_id"])

(***************************************************************************)
(* EmbeddedField. _deserialize returns its result (ret), the field after   *)
(* it (fld) and the caller's record after it (arg): the discriminator is   *)
(* popped out of the record the caller passed.                             *)
(***************************************************************************)
\* A field of class cls, and an embedded field declared by the name of its
\* document, as __init__ leaves it: nothing resolved.
Field(cls, allow_none) == [cls |-> cls, allow_none |-> allow_none]
EmbeddedFieldOf(embedded_document) ==
    [cls |-> "EmbeddedField", allow_none |-> FALSE,
     embedded_document |-> embedded_document, _embedded_document_cls |-> ""]
NullableEmbeddedFieldOf(embedded_document) ==
    [cls |-> "EmbeddedField", allow_none |-> TRUE,
     embedded_document |-> embedded_document, _embedded_document_cls |-> ""]

\* EmbeddedField.embedded_document_cls, the value returned.
embedded_document_cls(field) ==
    IF field._embedded_document_cls # "" THEN field._embedded_document_cls
    ELSE retrieve_embedded_document(field.embedded_document)

\* EmbeddedField.embedded_document_cls, the field after the property was read.
embedded_document_cls_resolved(field) ==
    [field EXCEPT !._embedded_document_cls = embedded_document_cls(field)]

\* isinstance(value, embedded_document_cls)
IsEmbeddedInstance(value, cls) ==
    value.t = "EmbeddedDocument" /\ (value.cls = cls \/ value.cls \in offspring(cls))

Returns3(ret, field, arg) == [ret |-> ret, fld |-> field, arg |-> arg]

\* An inheritance branch that takes any registered name for an offspring.
EmbeddedField_deserialize_any_registered(field, value, to_use_cls_name) ==
    IF ~(to_use_cls_name.t = "str" /\ retrieve_embedded_document(to_use_cls_name.s) # "")
    THEN Returns3(ValidationError("Unknown document."), field, value)
    ELSE Returns3(EmbeddedDocument(to_use_cls_name.s, value.d), field, value)

\* The inheritance branch of EmbeddedField._deserialize; value is the record
\* after value.pop('cls'), which returned to_use_cls_name.
EmbeddedField_deserialize_offspring(field, value, to_use_cls_name) ==
    IF ~(to_use_cls_name.t = "str"
         /\ to_use_cls_name.s \in offspring(embedded_document_cls(field)))
    THEN Returns3(ValidationError("Unknown document."), field, value)
    ELSE IF retrieve_embedded_document(to_use_cls_name.s) = ""
    THEN Returns3(ValidationError("NotRegisteredDocumentError"), field, value)
    ELSE Returns3(EmbeddedDocument(to_use_cls_name.s, value.d), field, value)

\* EmbeddedField._deserialize, once embedded_document_cls is resolved. A
\* record is a dict or the tracked Dict; value.pop('cls') takes the
\* discriminator out of the caller's record.
EmbeddedField_deserialize_resolved(field, value) ==
    IF IsEmbeddedInstance(value, embedded_document_cls(field))
    THEN Returns3(value, field, value)
    ELSE IF ~IsDict(value)
    THEN Returns3(ErrorMap([_schema |-> [list |-> <<"Invalid input type.">>]]), field, value)
    ELSE IF offspring(embedded_document_cls(field)) # {} /\ "cls" \in DOMAIN value.d
    THEN EmbeddedField_deserialize_offspring(
             field,
             [value EXCEPT !.d = DictPop(@, "cls"),
                           !.keys = SelectSeq(@, LAMBDA k : k # "cls")],
             value.d["cls"])
    ELSE Returns3(EmbeddedDocument(embedded_document_cls(field), value.d), field, value)

\* EmbeddedField._deserialize
EmbeddedField_deserialize(field, value) ==
    IF embedded_document_cls(field) = ""
    THEN Returns3(PyError("NotRegisteredDocumentError"), field, value)
    ELSE EmbeddedField_deserialize_resolved(embedded_document_cls_resolved(field), value)

\* The names the embedded documents declare, in declaration order.
DeclaredNames == <<"x", "y", "b", "g", "e">>

\* obj.to_mongo() of an embedded document: what it holds, in declaration order.
to_mongo(obj_) == PlainDictIn(DeclaredNames, obj_.data)

\* EmbeddedField._serialize_to_mongo: obj.to_mongo(). The tracked List and
\* Dict are data objects too, and BaseDataObject.to_mongo returns self; a
\* value of any other kind has no to_mongo.
EmbeddedField_serialize_to_mongo(field, obj_) ==
    CASE obj_.t = "EmbeddedDocument" -> to_mongo(obj_)
      [] obj_.t \in {"List", "Dict"} -> obj_
      [] OTHER -> PyError("AttributeError")

\* EmbeddedField._deserialize_from_mongo: embedded_document_cls.build_from_mongo(value)
EmbeddedField_deserialize_from_mongo(field, value) ==
    IF embedded_document_cls(field) = ""
    THEN Returns(PyError("NotRegisteredDocumentError"), field)
    ELSE IF ~IsDict(value)
    THEN Returns(PyError("TypeError"), embedded_document_cls_resolved(field))
    ELSE Returns(EmbeddedDocument(embedded_document_cls(field), value.d),
                 embedded_document_cls_resolved(field))

(***************************************************************************)
(* The storage codec of every field: BaseField.serialize_to_mongo and      *)
(* deserialize_from_mongo, which dispatch on the field's class to its      *)
(* _serialize_to_mongo and _deserialize_from_mongo. An operation applied   *)
(* to a value of a type it cannot take raises; the exception is the result.*)
(* With its result (ret) an operation returns the invocations of           *)
(* _serialize_to_mongo or _deserialize_from_mongo made in its course, in   *)
(* the order they were entered (calls); a decoder returns the field after  *)
(* it as well (fld), since decoding can resolve a field's target.          *)
(***************************************************************************)
\* One invocation field._serialize_to_mongo(arg) or
\* field._deserialize_from_mongo(arg), and what it returned or raised.
Invocation(field, arg, ret) == [field |-> field, arg |-> arg, ret |-> ret]

Encoded(ret, made) == [ret |-> ret, calls |-> made]
Decoded(ret, made, field) == [ret |-> ret, calls |-> made, fld |-> field]

\* r is what the invocation on (field, arg) did: the invocation is entered
\* before those made inside it.
Invoked(field, arg, r) == [r EXCEPT !.calls = <<Invocation(field, arg, r.ret)>> \o @]

\* The values of a dict in the order of its keys, and the items made of them.
ValuesOf(value) == [i \in 1..Len(value.keys) |-> value.d[value.keys[i]]]
ItemsOf(keys, values) ==
    [k \in {keys[i] : i \in 1..Len(values)} |->
        values[CHOOSE i \in 1..Len(values) : keys[i] = k]]

RECURSIVE serialize_to_mongo(_, _)
RECURSIVE deserialize_from_mongo(_, _)
RECURSIVE serialize_elements(_, _, _, _, _)
RECURSIVE serialize_items(_, _, _, _)
RECURSIVE deserialize_elements_from_mongo(_, _, _, _, _)
RECURSIVE deserialize_items_from_mongo(_, _, _, _)

\* One element of the list comprehension: r is what inner.serialize_to_mongo
\* did with it. An element that raises ends the comprehension.
serialize_element(field, elements, i, rets, made, r) ==
    IF IsError(r.ret) THEN [rets |-> rets, calls |-> made \o r.calls, raised |-> r.ret]
    ELSE serialize_elements(field, elements, i + 1, Append(rets, r.ret), made \o r.calls)

\* [self.inner.serialize_to_mongo(each) for each in obj], from the i-th
\* element on: the results so far, the invocations so far, the exception.
serialize_elements(field, elements, i, rets, made) ==
    IF i > Len(elements) THEN [rets |-> rets, calls |-> made, raised |-> None]
    ELSE serialize_element(field, elements, i, rets, made,
                           serialize_to_mongo(field, elements[i]))

\* ListField._serialize_to_mongo: a comprehension over whatever iterates.
ListField_serialize_to_mongo(field, obj_) ==
    IF obj_ = None THEN Encoded(missing, <<>>)
    ELSE IF ~IsIterable(obj_) THEN Encoded(PyError("TypeError"), <<>>)
    ELSE Encoded(
             IF serialize_elements(field.inner, Iterate(obj_), 1, <<>>, <<>>).raised # None
             THEN serialize_elements(field.inner, Iterate(obj_), 1, <<>>, <<>>).raised
             ELSE PlainList(serialize_elements(field.inner, Iterate(obj_), 1, <<>>, <<>>).rets),
             serialize_elements(field.inner, Iterate(obj_), 1, <<>>, <<>>).calls)

\* `f.serialize_to_mongo(x) if f else x` and `f.deserialize_from_mongo(x) if f else x`
serialize_if(f, x) == IF f = None THEN Encoded(x, <<>>) ELSE serialize_to_mongo(f, x)
deserialize_if(f, x) == IF f = None THEN Decoded(x, <<>>, f) ELSE deserialize_from_mongo(f, x)

\* One item of the dict comprehension: kr is what the key expression did and
\* vr what the value expression did; the key is evaluated first, and the value
\* only when the key did not raise. acc holds the keys and values built and
\* the invocations made so far.
serialize_item(field, obj_, i, acc, kr, vr) ==
    IF IsError(kr.ret)
    THEN [keys |-> acc.keys, rets |-> acc.rets, calls |-> acc.calls \o kr.calls,
          raised |-> kr.ret]
    ELSE IF IsError(vr.ret)
    THEN [keys |-> acc.keys, rets |-> acc.rets, calls |-> acc.calls \o kr.calls \o vr.calls,
          raised |-> vr.ret]
    ELSE serialize_items(field, obj_, i + 1,
                         [keys |-> Append(acc.keys, kr.ret.s), rets |-> Append(acc.rets, vr.ret),
                          calls |-> acc.calls \o kr.calls \o vr.calls])

\* The dict comprehension of DictField._serialize_to_mongo from the i-th item on.
serialize_items(field, obj_, i, acc) ==
    IF i > Len(obj_.keys)
    THEN [keys |-> acc.keys, rets |-> acc.rets, calls |-> acc.calls, raised |-> None]
    ELSE serialize_item(field, obj_, i, acc,
                        serialize_if(field.key_field, Str(obj_.keys[i])),
                        serialize_if(field.value_field, obj_.d[obj_.keys[i]]))

NoItems == [keys |-> <<>>, rets |-> <<>>, calls |-> <<>>]

\* DictField._serialize_to_mongo. Keys are strings.
DictField_serialize_to_mongo(field, obj_) ==
    IF obj_ = None THEN Encoded(missing, <<>>)
    ELSE IF ~IsDict(obj_) THEN Encoded(PyError("AttributeError"), <<>>)
    ELSE Encoded(
             IF serialize_items(field, obj_, 1, NoItems).raised # None
             THEN serialize_items(field, obj_, 1, NoItems).raised
             ELSE PlainDict(serialize_items(field, obj_, 1, NoItems).keys,
                            ItemsOf(serialize_items(field, obj_, 1, NoItems).keys,
                                    serialize_items(field, obj_, 1, NoItems).rets)),
             serialize_items(field, obj_, 1, NoItems).calls)

\* One element of the decoder's list comprehension: r is what
\* inner.deserialize_from_mongo did with it, the inner field after it included.
deserialize_element_from_mongo(field, elements, i, rets, made, r) ==
    IF IsError(r.ret)
    THEN [rets |-> rets, calls |-> made \o r.calls, fld |-> r.fld, raised |-> r.ret]
    ELSE deserialize_elements_from_mongo(r.fld, elements, i + 1, Append(rets, r.ret),
                                         made \o r.calls)

\* [self.inner.deserialize_from_mongo(each) for each in value], from the i-th
\* element on.
deserialize_elements_from_mongo(field, elements, i, rets, made) ==
    IF i > Len(elements)
    THEN [rets |-> rets, calls |-> made, fld |-> field, raised |-> None]
    ELSE deserialize_element_from_mongo(field, elements, i, rets, made,
                                        deserialize_from_mongo(field, elements[i]))

\* ListField._deserialize_from_mongo
ListField_deserialize_from_mongo(field, value) ==
    IF Falsy(value) THEN Decoded(List(<<>>), <<>>, field)
    ELSE IF ~IsIterable(value) THEN Decoded(PyError("TypeError"), <<>>, field)
    ELSE Decoded(
             IF deserialize_elements_from_mongo(field.inner, Iterate(value), 1, <<>>, <<>>).raised # None
             THEN deserialize_elements_from_mongo(field.inner, Iterate(value), 1, <<>>, <<>>).raised
             ELSE List(deserialize_elements_from_mongo(field.inner, Iterate(value), 1, <<>>, <<>>).rets),
             deserialize_elements_from_mongo(field.inner, Iterate(value), 1, <<>>, <<>>).calls,
             [field EXCEPT !.inner =
                 deserialize_elements_from_mongo(@, Iterate(value), 1, <<>>, <<>>).fld])

\* One item of the decoder's dict comprehension; acc holds the keys and
\* values built, the invocations made and the value field so far.
deserialize_item_from_mongo(field, value, i, acc, kr, vr) ==
    IF IsError(kr.ret)
    THEN [keys |-> acc.keys, rets |-> acc.rets, calls |-> acc.calls \o kr.calls,
          fld |-> acc.fld, raised |-> kr.ret]
    ELSE IF IsError(vr.ret)
    THEN [keys |-> acc.keys, rets |-> acc.rets, calls |-> acc.calls \o kr.calls \o vr.calls,
          fld |-> vr.fld, raised |-> vr.ret]
    ELSE deserialize_items_from_mongo(
             field, value, i + 1,
             [keys |-> Append(acc.keys, kr.ret.s), rets |-> Append(acc.rets, vr.ret),
              calls |-> acc.calls \o kr.calls \o vr.calls, fld |-> vr.fld])

\* The dict comprehension of DictField._deserialize_from_mongo from the i-th
\* item on.
deserialize_items_from_mongo(field, value, i, acc) ==
    IF i > Len(value.keys)
    THEN [keys |-> acc.keys, rets |-> acc.rets, calls |-> acc.calls, fld |-> acc.fld,
          raised |-> None]
    ELSE deserialize_item_from_mongo(field, value, i, acc,
                                     deserialize_if(field.key_field, Str(value.keys[i])),
                                     deserialize_if(acc.fld, value.d[value.keys[i]]))

NoItemsOf(field) == [keys |-> <<>>, rets |-> <<>>, calls |-> <<>>, fld |-> field.value_field]

\* DictField._deserialize_from_mongo
DictField_deserialize_from_mongo(field, value) ==
    IF Falsy(value) THEN Decoded(Dict(<<>>, EmptyDict), <<>>, field)
    ELSE IF ~IsDict(value) THEN Decoded(PyError("AttributeError"), <<>>, field)
    ELSE Decoded(
             IF deserialize_items_from_mongo(field, value, 1, NoItemsOf(field)).raised # None
             THEN deserialize_items_from_mongo(field, value, 1, NoItemsOf(field)).raised
             ELSE Dict(deserialize_items_from_mongo(field, value, 1, NoItemsOf(field)).keys,
                       ItemsOf(deserialize_items_from_mongo(field, value, 1, NoItemsOf(field)).keys,
                               deserialize_items_from_mongo(field, value, 1, NoItemsOf(field)).rets)),
             deserialize_items_from_mongo(field, value, 1, NoItemsOf(field)).calls,
             [field EXCEPT !.value_field =
                 deserialize_items_from_mongo(field, value, 1, NoItemsOf(field)).fld])

\* field._serialize_to_mongo(obj), by the field's class; BaseField's returns obj.
field_serialize_to_mongo(field, obj_) ==
    CASE field.cls = "DecimalField" ->
           Encoded(IF obj_.t = "Decimal" THEN DecimalField_serialize_to_mongo(field, obj_)
                   ELSE PyError("TypeError"), <<>>)
      [] field.cls = "DateField" ->
           Encoded(IF IsDate(obj_) THEN DateField_serialize_to_mongo(field, obj_)
                   ELSE PyError("AttributeError"), <<>>)
      [] field.cls = "ListField" -> ListField_serialize_to_mongo(field, obj_)
      [] field.cls = "DictField" -> DictField_serialize_to_mongo(field, obj_)
      [] field.cls = "ReferenceField" ->
           Encoded(ReferenceField_serialize_to_mongo(field, obj_), <<>>)
      [] field.cls = "GenericReferenceField" ->
           Encoded(GenericReferenceField_serialize_to_mongo(field, obj_), <<>>)
      [] field.cls = "EmbeddedField" ->
           Encoded(EmbeddedField_serialize_to_mongo(field, obj_), <<>>)
      [] OTHER -> Encoded(obj_, <<>>)

\* A wrapper that hands every value to the encoder.
serialize_to_mongo_unguarded(field, obj_) ==
    Invoked(field, obj_, field_serialize_to_mongo(field, obj_))

\* BaseField.serialize_to_mongo
serialize_to_mongo(field, obj_) ==
    IF obj_ = None /\ field.allow_none THEN Encoded(None, <<>>)
    ELSE IF obj_ = missing THEN Encoded(missing, <<>>)
    ELSE Invoked(field, obj_, field_serialize_to_mongo(field, obj_))

\* field._deserialize_from_mongo(value), by the field's class; BaseField's
\* returns value.
field_deserialize_from_mongo(field, value) ==
    CASE field.cls = "DecimalField" ->
           Decoded(IF value.t = "Decimal128" THEN DecimalField_deserialize_from_mongo(field, value)
                   ELSE PyError("AttributeError"), <<>>, field)
      [] field.cls = "AwareDateTimeField" ->
           Decoded(IF IsDateTime(value) THEN AwareDateTimeField_deserialize_from_mongo(field, value)
                   ELSE IF value.t \in {"str", "date"} THEN PyError("TypeError")
                   ELSE PyError("AttributeError"), <<>>, field)
      [] field.cls = "DateField" ->
           Decoded(IF IsDateTime(value) THEN DateField_deserialize_from_mongo(field, value)
                   ELSE PyError("AttributeError"), <<>>, field)
      [] field.cls = "ListField" -> ListField_deserialize_from_mongo(field, value)
      [] field.cls = "DictField" -> DictField_deserialize_from_mongo(field, value)
      [] field.cls = "ReferenceField" ->
           Decoded(ReferenceField_deserialize_from_mongo(field, value).ret, <<>>,
                   ReferenceField_deserialize_from_mongo(field, value).fld)
      [] field.cls = "GenericReferenceField" ->
           Decoded(GenericReferenceField_deserialize_from_mongo(field, value), <<>>, field)
      [] field.cls = "EmbeddedField" ->
           Decoded(EmbeddedField_deserialize_from_mongo(field, value).ret, <<>>,
                   EmbeddedField_deserialize_from_mongo(field, value).fld)
      [] OTHER -> Decoded(value, <<>>, field)

\* BaseField.deserialize_from_mongo
deserialize_from_mongo(field, value) ==
    IF value = None /\ field.allow_none THEN Decoded(None, <<>>, field)
    ELSE Invoked(field, value, field_deserialize_from_mongo(field, value))

(***************************************************************************)
(* The null check.                                                         *)
(***************************************************************************)
\* BaseField._validate_missing passes: the value is not a None the field refuses.
validate_missing(field, value) == ~(value = None /\ ~field.allow_none)

\* BaseField._validate_missing: self.fail('null'), or nothing.
BaseField_validate_missing(field, value) ==
    IF validate_missing(field, value) THEN None
    ELSE ValidationError("Field may not be null.")

\* A field of an embedded document's schema as the schema declares it: an
\* embedded field names its document and has not resolved it.
DeclaredField(f) ==
    IF f.cls = "EmbeddedField"
    THEN [cls |-> "EmbeddedField", allow_none |-> f.allow_none,
          embedded_document |-> f.embedded_schema, _embedded_document_cls |-> ""]
    ELSE [cls |-> f.cls, allow_none |-> f.allow_none]

\* embedded_document_cls.schema.fields.items(): (name, field) in declared order.
embedded_schema_fields(cls) ==
    [i \in 1..Len(SchemaFields(cls)) |->
        <<SchemaFields(cls)[i].name, DeclaredField(SchemaFields(cls)[i])>>]

\* The declared names of a schema's fields and the field declared under a name.
NamesOf(fields) == [i \in 1..Len(fields) |-> fields[i][1]]
FieldNamed(fields, name) == fields[CHOOSE i \in 1..Len(fields) : fields[i][1] = name][2]

\* get_sub_value of EmbeddedField._validate_missing: value.get(key, missing)
\* of a dict, value._data.get(key) of an instance.
get_sub_value(value, key) ==
    IF IsDict(value) THEN (IF key \in DOMAIN value.d THEN value.d[key] ELSE missing)
    ELSE IF key \in DOMAIN value.data THEN value.data[key] ELSE missing

\* An exception that is no ValidationError leaves a loop that catches
\* ValidationError at once.
Escapes(results, keys) == {k \in keys : IsError(results[k]) /\ ~IsValidationError(results[k])}
Failed(results, keys) == {k \in keys : IsValidationError(results[k])}

\* The first of the names, in their order, whose result escapes.
FirstEscape(names, results) ==
    names[Min({i \in 1..Len(names) : names[i] \in Escapes(results, DOMAIN results)})]
\* The first of the names, in their order, whose result is a ValidationError.
FirstFailed(names, results) ==
    names[Min({i \in 1..Len(names) : names[i] \in Failed(results, DOMAIN results)})]

\* Only the first inner failure is kept.
EmbeddedField_collect_missing_first(names, results) ==
    IF Escapes(results, DOMAIN results) # {} THEN results[FirstEscape(names, results)]
    ELSE IF Failed(results, DOMAIN results) = {} THEN None
    ELSE ErrorMap([n \in {FirstFailed(names, results)} |-> messages(results[n])])

\* The loop of EmbeddedField._validate_missing over the results of the inner
\* checks, names being the inner fields checked, in declared order:
\* errors[name] = exc.messages for a ValidationError, raised together after
\* the loop; any other exception leaves the loop where it is raised.
EmbeddedField_collect_missing(names, results) ==
    IF Escapes(results, DOMAIN results) # {} THEN results[FirstEscape(names, results)]
    ELSE IF Failed(results, DOMAIN results) = {} THEN None
    ELSE ErrorMap([n \in Failed(results, DOMAIN results) |-> messages(results[n])])

RECURSIVE field_validate_missing(_, _)

\* The inner fields the loop checks: those whose sub-value is not missing.
Present(value, fields) ==
    SelectSeq(NamesOf(fields), LAMBDA n : get_sub_value(value, n) # missing)

\* The loop of EmbeddedField._validate_missing; inner fields whose sub-value
\* is missing are skipped.
EmbeddedField_validate_missing_loop(value, fields) ==
    EmbeddedField_collect_missing(
        Present(value, fields),
        [n \in {Present(value, fields)[i] : i \in 1..Len(Present(value, fields))} |->
            field_validate_missing(FieldNamed(fields, n), get_sub_value(value, n))])

\* EmbeddedField._validate_missing: the null check, then the loop over the
\* schema's fields, which reads the property embedded_document_cls; for a
\* missing value every sub-value is missing.
EmbeddedField_validate_missing(field, value) ==
    IF ~validate_missing(field, value) THEN BaseField_validate_missing(field, value)
    ELSE IF embedded_document_cls(field) = "" THEN PyError("NotRegisteredDocumentError")
    ELSE IF value = missing THEN None
    ELSE IF IsDict(value) \/ IsEmbeddedInstance(value, embedded_document_cls(field))
    THEN EmbeddedField_validate_missing_loop(
             value, embedded_schema_fields(embedded_document_cls(field)))
    ELSE None

\* field._validate_missing(value), by the field's class.
field_validate_missing(field, value) ==
    IF field.cls = "EmbeddedField" THEN EmbeddedField_validate_missing(field, value)
    ELSE BaseField_validate_missing(field, value)

\* The field after field._validate_missing(value): an embedded field reads
\* its embedded_document_cls property unless the null check raised.
validate_missing_field(field, value) ==
    IF field.cls = "EmbeddedField" /\ validate_missing(field, value)
       /\ embedded_document_cls(field) # ""
    THEN embedded_document_cls_resolved(field)
    ELSE field

(***************************************************************************)
(* field._deserialize(value, attr, data), by the field's class. The result *)
(* is ret, the field after the call fld, and the caller's value after the  *)
(* call arg. A pass-through field's parser is the library's: a value of    *)
(* the field's own type is returned as it is, and no other is given here.  *)
(***************************************************************************)
DateTimeFamily == {"DateTimeField", "NaiveDateTimeField", "AwareDateTimeField"}

Typed(value, t) == IF value.t = t THEN value ELSE ValidationError("Invalid value.")

RECURSIVE field_deserialize(_, _)

\* The library's Field.deserialize on an element of a container: the
\* field's _validate_missing, None for an allowed None, then _deserialize.
\* With the result come the element field and the element after the call.
deserialize_element(field, value) ==
    IF IsError(field_validate_missing(field, value))
    THEN Returns3(field_validate_missing(field, value),
                  validate_missing_field(field, value), value)
    ELSE IF value = None THEN Returns3(None, validate_missing_field(field, value), value)
    ELSE field_deserialize(validate_missing_field(field, value), value)

\* What the library's Field.deserialize returns for an element of a container.
deserialize(field, value) == deserialize_element(field, value).ret

\* The loop of the library's list and map parsers over the elements from the
\* i-th on. A ValidationError is kept and the loop goes on; any other
\* exception leaves the loop (raised). rets are the results so far, args the
\* elements as the calls left them, fld the element field.
RECURSIVE deserialize_elements(_, _, _, _, _)
deserialize_elements(field, elements, i, rets, args) ==
    IF i > Len(elements)
    THEN [rets |-> rets, args |-> args, fld |-> field, raised |-> None]
    ELSE IF IsError(deserialize_element(field, elements[i]).ret)
            /\ ~IsValidationError(deserialize_element(field, elements[i]).ret)
    THEN [rets |-> rets,
          args |-> Append(args, deserialize_element(field, elements[i]).arg)
                       \o SubSeq(elements, i + 1, Len(elements)),
          fld |-> deserialize_element(field, elements[i]).fld,
          raised |-> deserialize_element(field, elements[i]).ret]
    ELSE deserialize_elements(deserialize_element(field, elements[i]).fld, elements, i + 1,
                              Append(rets, deserialize_element(field, elements[i]).ret),
                              Append(args, deserialize_element(field, elements[i]).arg))

\* The result of a parser's loop e: the exception that left it, one
\* ValidationError for all the elements that failed, or the container.
ParsedOrRaise(e, container) ==
    IF e.raised # None THEN e.raised
    ELSE IF (\E i \in 1..Len(e.rets) : IsError(e.rets[i])) THEN ValidationError("Invalid elements.")
    ELSE container

\* The caller's value after a list parser's loop: a list holds the elements
\* as the calls left them.
ListAfter(value, e) == IF IsList(value) THEN [value EXCEPT !.items = e.args] ELSE value

\* ListField._deserialize: the library's list parser takes any iterable that
\* is no string and hands every element to inner.deserialize; the result is
\* wrapped in the tracked List.
ListField_deserialize(field, value) ==
    IF ~IsIterable(value) \/ value.t = "str"
    THEN Returns3(ValidationError("Not a valid list."), field, value)
    ELSE LET e == deserialize_elements(field.inner, Iterate(value), 1, <<>>, <<>>)
         IN  Returns3(ParsedOrRaise(e, List(e.rets)),
                      [field EXCEPT !.inner = e.fld], ListAfter(value, e))

\* DictField._deserialize: the library's map parser takes a mapping, copies it
\* when there is no value field and otherwise hands every value to
\* value_field.deserialize; the result is wrapped in the tracked Dict.
DictField_deserialize(field, value) ==
    IF ~IsDict(value) THEN Returns3(ValidationError("Not a valid mapping type."), field, value)
    ELSE IF field.value_field = None THEN Returns3(Dict(value.keys, value.d), field, value)
    ELSE LET e == deserialize_elements(field.value_field, ValuesOf(value), 1, <<>>, <<>>)
         IN  Returns3(ParsedOrRaise(e, Dict(value.keys, ItemsOf(value.keys, e.rets))),
                      [field EXCEPT !.value_field = e.fld],
                      [value EXCEPT !.d = ItemsOf(value.keys, e.args)])

WithArg(r, value) == Returns3(r.ret, r.fld, value)

field_deserialize(field, value) ==
    CASE field.cls \in DateTimeFamily ->
           Returns3(DateTimeField_deserialize(field, value), field, value)
      [] field.cls = "DateField" ->
           Returns3(DateField_deserialize(field, value), field, value)
      [] field.cls = "DecimalField" -> Returns3(Typed(value, "Decimal"), field, value)
      [] field.cls = "IntegerField" -> Returns3(Typed(value, "int"), field, value)
      [] field.cls = "StringField" -> Returns3(Typed(value, "str"), field, value)
      [] field.cls = "ListField" ->
           ListField_deserialize(field, value)
      [] field.cls = "DictField" ->
           DictField_deserialize(field, value)
      [] field.cls = "ReferenceField" ->
           WithArg(ReferenceField_deserialize(field, value), value)
      [] field.cls = "GenericReferenceField" ->
           Returns3(GenericReferenceField_deserialize(field, value), field, value)
      [] field.cls = "EmbeddedField" -> EmbeddedField_deserialize(field, value)

(***************************************************************************)
(* The field under test. fld is the field object, obj the value its caller *)
(* holds (an input to _deserialize, or a value read from storage) and      *)
(* trail the calls made so far, each with its argument and its result. A   *)
(* call takes the caller's value or the result of the call before it.      *)
(***************************************************************************)
MaxOps == 3

LastOut == trail[Len(trail)].out
LastOp == trail[Len(trail)].op

\* The result of the last call is a value in memory.
HasMemoryValue ==
    /\ trail # <<>>
    /\ LastOp \in {"deserialize", "deserialize_from_mongo"}
    /\ ~IsError(LastOut)

\* The result of the last call is a value for storage.
HasStorageValue ==
    /\ trail # <<>>
    /\ LastOp = "serialize_to_mongo"
    /\ ~IsError(LastOut)

Call(op, src, in, out) == [op |-> op, src |-> src, in |-> in, out |-> out]

\* A call of the storage codec on a field, as the field was when called, with
\* the invocations of the type-specific encoder or decoder made in its course.
CodecCall(op, src, on, in, r) ==
    [op |-> op, src |-> src, on |-> on, in |-> in, out |-> r.ret, calls |-> r.calls]

\* field._deserialize(obj)
DeserializeObj ==
    /\ Len(trail) < MaxOps
    /\ obj.world = "input"
    /\ fld' = field_deserialize(fld, obj.v).fld
    /\ obj' = [obj EXCEPT !.v = field_deserialize(fld, obj.v).arg]
    /\ trail' = Append(trail, Call("deserialize", "obj", obj.v,
                                   field_deserialize(fld, obj.v).ret))
    /\ UNCHANGED cacheVars

\* field._deserialize(the last result)
DeserializeLast ==
    /\ Len(trail) < MaxOps
    /\ HasMemoryValue
    /\ fld' = field_deserialize(fld, LastOut).fld
    /\ trail' = Append(trail, Call("deserialize", "last", LastOut,
                                   field_deserialize(fld, LastOut).ret))
    /\ UNCHANGED <<obj, cacheVars>>

\* field.serialize_to_mongo(the last result)
SerializeToMongo ==
    /\ Len(trail) < MaxOps
    /\ HasMemoryValue
    /\ trail' = Append(trail, CodecCall("serialize_to_mongo", "last", fld, LastOut,
                                        serialize_to_mongo(fld, LastOut)))
    /\ UNCHANGED <<fld, obj, cacheVars>>

\* field.deserialize_from_mongo(obj)
DeserializeFromMongoObj ==
    /\ Len(trail) < MaxOps
    /\ obj.world = "storage"
    /\ fld' = deserialize_from_mongo(fld, obj.v).fld
    /\ trail' = Append(trail, CodecCall("deserialize_from_mongo", "obj", fld, obj.v,
                                        deserialize_from_mongo(fld, obj.v)))
    /\ UNCHANGED <<obj, cacheVars>>

\* field.deserialize_from_mongo(the last result)
DeserializeFromMongoLast ==
    /\ Len(trail) < MaxOps
    /\ HasStorageValue
    /\ fld' = deserialize_from_mongo(fld, LastOut).fld
    /\ trail' = Append(trail, CodecCall("deserialize_from_mongo", "last", fld, LastOut,
                                        deserialize_from_mongo(fld, LastOut)))
    /\ UNCHANGED <<obj, cacheVars>>

NextField ==
    \/ DeserializeObj
    \/ DeserializeLast
    \/ SerializeToMongo
    \/ DeserializeFromMongoObj
    \/ DeserializeFromMongoLast

\* The cache is not part of a field's codec.
NoCache ==
    /\ cache = EmptyDict
    /\ schemaCache = EmptyDict
    /\ nextId = 1
    /\ calls = <<>>
    /\ threads = [t \in Callers |-> [pc |-> "done", args |-> None, entry |-> None]]

Input(v) == [v |-> v, world |-> "input"]
Stored(v) == [v |-> v, world |-> "storage"]

(***************************************************************************)
(* Rounding: the date-time fields given datetimes whose microseconds cover *)
(* every position inside a millisecond, in the first and last milliseconds *)
(* of a second.                                                            *)
(***************************************************************************)
MaxSec == 1
Milliseconds == {0, 1, 999}
Microseconds == {ms * 1000 + r : ms \in Milliseconds, r \in 0..999}
RoundFields ==
    {Field("DateTimeField", FALSE), Field("NaiveDateTimeField", FALSE)}
    \cup {[cls |-> "AwareDateTimeField", allow_none |-> FALSE, default_timezone |-> None]}
RoundInputs ==
    {NaiveDateTime(sec, m) : sec \in 0..MaxSec, m \in Microseconds}
    \cup {AwareDateTime(sec, m, 2) : sec \in 0..MaxSec, m \in Microseconds}

\* What storage holds: naive datetimes of millisecond precision.
RoundStored == {NaiveDateTime(sec, ms * 1000) : sec \in 0..MaxSec, ms \in Milliseconds}

InitRound ==
    /\ NoCache
    /\ fld \in RoundFields
    /\ obj \in {Input(v) : v \in RoundInputs} \cup {Stored(v) : v \in RoundStored}
    /\ trail = <<>>

SpecRound == InitRound /\ [][NextField]_vars

\* The position of a datetime on its own clock, in microseconds.
WallMicros(v) == v.sec * 1000000 + v.micro
Abs(n) == IF n < 0 THEN -n ELSE n

\* The calls of _deserialize that were given a datetime.
Roundings == {i \in 1..Len(trail) : trail[i].op = "deserialize" /\ IsDateTime(trail[i].in)}

\* C4: rounding to the millisecond is idempotent: rounding the result of a
\* rounding returns that result.
C4_RoundingIdempotent ==
    \A i \in Roundings :
        (i + 1 \in Roundings /\ trail[i + 1].src = "last")
        => trail[i + 1].out = trail[i].out

\* A value in the last half millisecond of a second was rounded, carried into
\* the next second, and the result was rounded again.
C4_Witness ==
    \E i \in Roundings :
        /\ i + 1 \in Roundings
        /\ trail[i + 1].src = "last"
        /\ trail[i].in.micro > 999500
        /\ trail[i].out # trail[i].in

\* C5: the rounded value has a whole number of milliseconds below the second,
\* lies on the thousand nearest to the input (at most 500 microseconds from
\* it), carries into the next second with zero microseconds when that
\* thousand is 1,000,000, and keeps every other component.
C5_RoundsToNearestThousand ==
    \A i \in Roundings :
        LET in == trail[i].in
            out == trail[i].out
        IN  /\ IsDateTime(out)
            /\ out.micro \in 0..999000
            /\ out.micro % 1000 = 0
            /\ Abs(WallMicros(out) - WallMicros(in)) <= 500
            /\ \A k \in {(in.micro \div 1000) * 1000, (in.micro \div 1000) * 1000 + 1000} :
                   Abs(WallMicros(out) - WallMicros(in)) <= Abs(k - in.micro)
            /\ in.micro > 999500 => (out.micro = 0 /\ out.sec = in.sec + 1)
            /\ in.micro < 999500 => out.sec = in.sec
            /\ out.aware = in.aware
            /\ out.off = in.off

\* 999700 microseconds were rounded to the next whole second.
C5_Witness ==
    \E i \in Roundings :
        /\ trail[i].in.micro = 999700
        /\ trail[i].out.micro = 0
        /\ trail[i].out.sec = trail[i].in.sec + 1

(***************************************************************************)
(* The storage codec: every scalar field with the values its _deserialize  *)
(* is given, and the list and map fields over a scalar inner field with    *)
(* what storage holds for them.                                            *)
(***************************************************************************)
MaxLen == 2
MaxDay == 1
Keys == {"a", "b"}

Timezone(off) == [t |-> "timezone", off |-> off]
AwareField(default_timezone) ==
    [cls |-> "AwareDateTimeField", allow_none |-> FALSE,
     default_timezone |-> default_timezone]
ListFieldOf(inner) == [cls |-> "ListField", allow_none |-> FALSE, inner |-> inner]
DictFieldOf(value_field) ==
    [cls |-> "DictField", allow_none |-> FALSE, key_field |-> None,
     value_field |-> value_field]
KeyedDictFieldOf(key_field, value_field) ==
    [cls |-> "DictField", allow_none |-> FALSE, key_field |-> key_field,
     value_field |-> value_field]

\* Times of day, in seconds: midnight and 01:01:01.
TimesOfDay == {0, 3661}
Days == 0..MaxDay
NaiveDateTimes == {NaiveDateTime(d * SecondsPerDay + s, 0) : d \in Days, s \in TimesOfDay}
AwareDateTimes ==
    {AwareDateTime(d * SecondsPerDay + s, 0, off) : d \in Days, s \in TimesOfDay, off \in {0, 2}}
Decimals == {Decimal(c, e) : c \in {0, 15, -15}, e \in {0, -2}}

\* The scalar fields and, for each, values its _deserialize is given.
ScalarInputs ==
    {<<Field("IntegerField", FALSE), Int_(n)>> : n \in {0, 7}}
    \cup {<<Field("StringField", FALSE), Str(x)>> : x \in {"", "a"}}
    \cup {<<Field("DecimalField", FALSE), v>> : v \in Decimals}
    \cup {<<Field("DateField", FALSE), v>> : v \in {Date(d) : d \in Days} \cup NaiveDateTimes}
    \cup {<<Field(c, FALSE), v>> : c \in {"DateTimeField", "NaiveDateTimeField"},
                                   v \in NaiveDateTimes}
    \cup {<<AwareField(z), v>> : z \in {None, Timezone(2)}, v \in AwareDateTimes}

\* The scalar inner fields and, for each, values storage holds for it: an
\* integer, a Decimal128, the midnight of a date, a naive datetime in UTC.
StoredOf(inner) ==
    CASE inner.cls = "IntegerField" -> {Int_(1), Int_(2)}
      [] inner.cls = "DecimalField" ->
           {DecimalField_serialize_to_mongo(inner, v) : v \in {Decimal(15, -2), Decimal(0, 0)}}
      [] inner.cls = "DateField" -> {NaiveDateTime(d * SecondsPerDay, 0) : d \in Days}
      [] OTHER -> {NaiveDateTime(s, 0) : s \in TimesOfDay}
InnerFields ==
    {Field(c, FALSE) : c \in {"IntegerField", "DecimalField", "DateField", "DateTimeField"}}
    \cup {AwareField(None)}

StoredLists(inner) ==
    {PlainList(xs) : xs \in UNION {[1..n -> StoredOf(inner)] : n \in 0..MaxLen}}
StoredDicts(inner) ==
    UNION {PlainDicts(d) : d \in UNION {[K -> StoredOf(inner)] : K \in SUBSET Keys}}

ContainerInputs ==
    UNION {{<<ListFieldOf(inner), xs>> : xs \in StoredLists(inner)} : inner \in InnerFields}
    \cup UNION {{<<DictFieldOf(inner), d>> : d \in StoredDicts(inner)} : inner \in InnerFields}

InitCodec ==
    /\ NoCache
    /\ \/ \E c \in ScalarInputs : fld = c[1] /\ obj = Input(c[2])
       \/ \E c \in ContainerInputs : fld = c[1] /\ obj = Stored(c[2])
    /\ trail = <<>>

SpecCodec == InitCodec /\ [][NextField]_vars

ContainerFields == {"ListField", "DictField"}

\* C6: for a scalar field and a value v its _deserialize returned, decoding
\* what serialize_to_mongo made of v gives a value equal to v.
C6_ScalarStorageRoundTrip ==
    \A i \in 2..Len(trail) - 1 :
        (/\ fld.cls \notin ContainerFields
         /\ trail[i - 1].op = "deserialize"
         /\ trail[i].op = "serialize_to_mongo"
         /\ trail[i + 1].op = "deserialize_from_mongo"
         /\ trail[i + 1].src = "last")
        => PyEq(trail[i + 1].out, trail[i].in)

\* C7: for a list or map field over a scalar inner field, decoding a storage
\* sequence xs gives the tracked container of the decoded elements, in the
\* same order and number, and encoding that container gives xs again.
C7_ContainerStorageRoundTrip ==
    \A i \in 1..Len(trail) :
        (/\ fld.cls \in ContainerFields
         /\ trail[i].op = "deserialize_from_mongo"
         /\ trail[i].src = "obj")
        => /\ fld.cls = "ListField" =>
                /\ trail[i].out.t = "List"
                /\ Len(trail[i].out.items) = Len(trail[i].in.items)
                /\ \A j \in 1..Len(trail[i].in.items) :
                       trail[i].out.items[j]
                           = field_deserialize_from_mongo(fld.inner, trail[i].in.items[j]).ret
           /\ fld.cls = "DictField" =>
                /\ trail[i].out.t = "Dict"
                /\ DOMAIN trail[i].out.d = DOMAIN trail[i].in.d
                /\ \A k \in DOMAIN trail[i].in.d :
                       trail[i].out.d[k]
                           = field_deserialize_from_mongo(fld.value_field, trail[i].in.d[k]).ret
           /\ (i < Len(trail) /\ trail[i + 1].op = "serialize_to_mongo")
                => PyEq(trail[i + 1].out, trail[i].in)

(***************************************************************************)
(* The embedded field: a field on Base, whose offspring are A and B, and a *)
(* field on Plain, which has none, given records with and without a        *)
(* discriminator, embedded instances and a value that is neither.          *)
(***************************************************************************)
Discriminators == {Str(n) : n \in {"A", "B", "C", "Base"}} \cup {Int_(1)}
Payloads == UNION {[K -> {Int_(1), Int_(2)}] : K \in SUBSET {"x", "b"}}
WithDiscriminator(d, c) == [k \in DOMAIN d \cup {"cls"} |-> IF k = "cls" THEN c ELSE d[k]]

\* Records as dicts, in every order of their keys, and as tracked Dicts;
\* instances; a value that is neither.
EmbeddedInputs ==
    UNION {PlainDicts(d) : d \in Payloads}
    \cup UNION {PlainDicts(WithDiscriminator(d, c)) : d \in Payloads, c \in Discriminators}
    \cup {Dict(<<>>, EmptyDict)}
    \cup {Dict(<<"cls", "x", "b">>, WithDiscriminator([k \in {"x", "b"} |-> Int_(1)], c)) :
             c \in Discriminators}
    \cup {EmbeddedDocument(c, d) : c \in RegisteredEmbeddedDocuments, d \in Payloads}
    \cup {Int_(1)}

InitEmbedded ==
    /\ NoCache
    /\ fld \in {EmbeddedFieldOf("Base"), EmbeddedFieldOf("Plain")}
    /\ obj \in {Input(v) : v \in EmbeddedInputs}
                   \cup {Stored(PlainDictIn(DeclaredNames, d)) : d \in Payloads}
    /\ trail = <<>>

SpecEmbedded == InitEmbedded /\ [][NextField]_vars

\* The calls of _deserialize made on a field whose embedded document has offspring.
OffspringDecodes ==
    {i \in 1..Len(trail) : /\ trail[i].op = "deserialize"
                           /\ fld.cls = "EmbeddedField"
                           /\ offspring(fld.embedded_document) # {}}

HasDiscriminator(v) == IsDict(v) /\ "cls" \in DOMAIN v.d
NamesOffspring(v, cls) == v.d["cls"].t = "str" /\ v.d["cls"].s \in offspring(cls)

\* C8: on a field whose embedded document has offspring, a record whose
\* discriminator names an offspring gives an instance of exactly that
\* offspring built from the other keys; a discriminator naming no offspring
\* (the base's own name included) gives an unknown-document error and no
\* instance; a record without discriminator gives the base type; an instance
\* of the base or of an offspring is returned as it is.
C8_DiscriminatorSelectsOffspring ==
    \A i \in OffspringDecodes :
        LET in == trail[i].in
            out == trail[i].out
        IN  /\ (HasDiscriminator(in) /\ NamesOffspring(in, fld.embedded_document))
                => /\ out = EmbeddedDocument(in.d["cls"].s, DictPop(in.d, "cls"))
                   /\ "cls" \notin DOMAIN out.data
            /\ (HasDiscriminator(in) /\ ~NamesOffspring(in, fld.embedded_document))
                => out = ValidationError("Unknown document.")
            /\ (IsDict(in) /\ ~HasDiscriminator(in))
                => out = EmbeddedDocument(fld.embedded_document, in.d)
            /\ IsEmbeddedInstance(in, fld.embedded_document) => out = in

\* A record with discriminator "B" and B's fields, held in a tracked Dict,
\* was decoded to an instance of B.
C8_Witness ==
    \E i \in OffspringDecodes :
        /\ trail[i].in.t = "Dict"
        /\ HasDiscriminator(trail[i].in)
        /\ trail[i].in.d["cls"] = Str("B")
        /\ DOMAIN trail[i].in.d = {"cls", "x", "b"}
        /\ trail[i].out.t = "EmbeddedDocument"
        /\ trail[i].out.cls = "B"

(***************************************************************************)
(* The reference fields: a field on document T, by name, not yet resolved, *)
(* and a generic field, each building Reference or a subclass of it, given *)
(* identifiers, references, documents created or not, DBRefs, records and  *)
(* values that are none of these.                                          *)
(***************************************************************************)
MaxId == 2

ReferenceFieldOf(document, reference_cls) ==
    [cls |-> "ReferenceField", allow_none |-> FALSE, document |-> document,
     _document_cls |-> "", reference_cls |-> reference_cls]
GenericReferenceFieldOf(reference_cls) ==
    [cls |-> "GenericReferenceField", allow_none |-> FALSE, reference_cls |-> reference_cls]

ReferenceClasses == {"Reference", "MyReference"}
Identifiers == {ObjectId(n) : n \in 1..MaxId}

ReferenceInputs ==
    Identifiers
    \cup {Reference(rc, dc, x) : rc \in ReferenceClasses, dc \in RegisteredDocuments,
                                 x \in Identifiers}
    \cup {Document(dc, x, TRUE) : dc \in RegisteredDocuments, x \in Identifiers}
    \cup {Document(dc, None, FALSE) : dc \in RegisteredDocuments}
    \cup {DBRef(c, x) : c \in {"t", "u"}, x \in Identifiers}
    \cup UNION {PlainDicts([cls |-> Str(dc), id |-> x]) : dc \in {"T", "V"}, x \in Identifiers}
    \cup {Dict(<<"cls", "id">>, [cls |-> Str("T"), id |-> x]) : x \in Identifiers}
    \cup {PlainDict(<<"cls">>, [cls |-> Str("T")]), Str("junk"), None}
    \cup {PlainDict(<<"cls", "id">>, [cls |-> Str("T"), id |-> x]) : x \in {Str("junk"), Int_(1)}}
    \cup {PlainDict(<<"cls", "id", "extra">>, [cls |-> Str("T"), id |-> x, extra |-> Int_(1)]) :
             x \in Identifiers}

ReferenceFields ==
    {ReferenceFieldOf("T", rc) : rc \in ReferenceClasses}
    \cup {GenericReferenceFieldOf(rc) : rc \in ReferenceClasses}

\* What storage holds for a reference field.
ReferenceStored(field) ==
    IF field.cls = "ReferenceField" THEN Identifiers
    ELSE UNION {PlainDicts([_id |-> x, _cls |-> Str(dc)]) :
                   x \in Identifiers, dc \in RegisteredDocuments}

InitReference ==
    /\ NoCache
    /\ fld \in ReferenceFields
    /\ obj \in {Input(v) : v \in ReferenceInputs} \cup {Stored(v) : v \in ReferenceStored(fld)}
    /\ trail = <<>>

SpecReference == InitReference /\ [][NextField]_vars

SingleType == fld.cls = "ReferenceField"
Calls(op) == {i \in 1..Len(trail) : trail[i].op = op}

\* C9: through a reference field on T, _deserialize of an identifier x gives
\* Reference(T, x), serialize_to_mongo of a reference gives its identifier,
\* and deserialize_from_mongo of x gives Reference(T, x); so encoding what was
\* decoded gives the identifier back and decoding what was encoded gives the
\* reference back.
C9_ReferenceRoundTrip ==
    SingleType =>
        /\ \A i \in Calls("deserialize") :
               trail[i].in \in Identifiers
               => trail[i].out = Reference(fld.reference_cls, fld.document, trail[i].in)
        /\ \A i \in Calls("serialize_to_mongo") :
               trail[i].in.t = "Reference" => trail[i].out = trail[i].in.pk
        /\ \A i \in Calls("deserialize_from_mongo") :
               /\ trail[i].in \in Identifiers
                    => trail[i].out = Reference(fld.reference_cls, fld.document, trail[i].in)
               /\ (i > 1 /\ trail[i].src = "last" /\ trail[i - 1].in.t = "Reference"
                         /\ trail[i - 1].in.document_cls = fld.document
                         /\ trail[i - 1].in.rcls = fld.reference_cls)
                    => trail[i].out = trail[i - 1].in
        /\ \A i \in Calls("serialize_to_mongo") :
               (i > 1 /\ trail[i - 1].op = "deserialize_from_mongo"
                      /\ trail[i - 1].in \in Identifiers)
               => trail[i].out = trail[i - 1].in

\* An identifier was deserialized to a reference, the reference encoded to the
\* identifier and the identifier decoded to the reference again.
C9_Witness ==
    /\ SingleType
    /\ Len(trail) = 3
    /\ trail[1].op = "deserialize"
    /\ trail[1].in \in Identifiers
    /\ trail[2].op = "serialize_to_mongo"
    /\ trail[2].out = trail[1].in
    /\ trail[3].op = "deserialize_from_mongo"
    /\ trail[3].out = trail[1].out
    /\ trail[3].out.t = "Reference"

NotCreated == ValidationError("Cannot reference a document that has not been created yet.")

ReferenceExpected == ValidationError("reference expected.")

\* C10: through either reference field, a document that was not created is
\* refused with the not-created error and a created one of the target type
\* (of any type, for the generic field) gives Reference(its type, its pk);
\* through the field on T, a reference or a document of another type is
\* refused with a validation error and never wrapped.
C10_NotCreatedAndWrongTypeRefused ==
    \A i \in Calls("deserialize") :
        LET in == trail[i].in
            out == trail[i].out
        IN  /\ (in.t = "Document" /\ ~in.is_created) => out = NotCreated
            /\ (in.t = "Document" /\ in.is_created
                   /\ (SingleType => IsDocumentInstance(in, fld.document)))
                => out = Reference(fld.reference_cls, in.cls, in.pk)
            /\ (SingleType /\ in.t = "Document" /\ ~IsDocumentInstance(in, fld.document))
                => IsValidationError(out)
            /\ (SingleType /\ in.t = "Reference" /\ in.document_cls # fld.document)
                => IsValidationError(out)

\* C10, amended: through the generic field a document that was not created
\* is refused with the not-created error and a created one gives
\* Reference(its type, its pk); through the field on T an instance of T or
\* of a subclass of T that was not created is refused with the not-created
\* error and a created one gives Reference(T, its pk), T even for an
\* instance of the subclass; a document that is no instance of T, created or
\* not, and a reference to another type are refused with the
\* reference-expected error and never wrapped.
C10_RefusedOrBoundToTarget ==
    \A i \in Calls("deserialize") :
        LET in == trail[i].in
            out == trail[i].out
        IN  /\ (~SingleType /\ in.t = "Document")
                => IF in.is_created
                   THEN out = Reference(fld.reference_cls, in.cls, in.pk)
                   ELSE out = NotCreated
            /\ (SingleType /\ IsDocumentInstance(in, fld.document))
                => IF in.is_created
                   THEN out = Reference(fld.reference_cls, fld.document, in.pk)
                   ELSE out = NotCreated
            /\ (SingleType /\ in.t = "Document" /\ ~IsDocumentInstance(in, fld.document))
                => out = ReferenceExpected
            /\ (SingleType /\ in.t = "Reference" /\ in.document_cls # fld.document)
                => out = ReferenceExpected

\* The field on T refused a document of T that was not created with the
\* not-created error, or bound a created instance of the subclass T1 to T.
C10_Witness ==
    \E i \in Calls("deserialize") :
        /\ SingleType
        /\ trail[i].in.t = "Document"
        /\ \/ /\ ~trail[i].in.is_created
              /\ trail[i].in.cls = fld.document
              /\ trail[i].out = NotCreated
           \/ /\ trail[i].in.is_created
              /\ trail[i].in.cls \in document_subclasses(fld.document)
              /\ trail[i].out = Reference(fld.reference_cls, fld.document, trail[i].in.pk)

(***************************************************************************)
(* Required-field validation.                                              *)
(***************************************************************************)
\* The fields an embedded document declares required.
required_fields(cls) == IF cls = "Plain" THEN {} ELSE {"x"}

\* value.required_validate() of an embedded document: every required field
\* that is missing is reported, by name.
EmbeddedDocument_required_validate(value) ==
    IF required_fields(value.cls) \subseteq DOMAIN value.data THEN None
    ELSE ErrorMap([n \in required_fields(value.cls) \ DOMAIN value.data |->
                      [list |-> <<"Missing data for required field.">>]])

\* EmbeddedField._required_validate: value.required_validate() unless value
\* is missing; None has no such method.
EmbeddedField_required_validate(field, value) ==
    IF value = missing THEN None
    ELSE IF value.t = "EmbeddedDocument" THEN EmbeddedDocument_required_validate(value)
    ELSE PyError("AttributeError")

\* hasattr(field, '_required_validate'); a map field without value field has None there.
HasRequiredValidate(field) ==
    field # None /\ field.cls \in {"ListField", "DictField", "EmbeddedField"}

\* The loop of ListField._required_validate over the results of the inner
\* field's _required_validate: errors[i] = exc.messages, i counted from 0.
ListField_collect(results) ==
    IF Escapes(results, DOMAIN results) # {}
    THEN results[Min(Escapes(results, DOMAIN results))]
    ELSE IF Failed(results, DOMAIN results) = {} THEN None
    ELSE ErrorMap([k \in {i - 1 : i \in Failed(results, DOMAIN results)} |->
                      messages(results[k + 1])])

\* The loop of DictField._required_validate: errors[key]["value"] = exc.messages.
\* An exception that escapes is that of the first such key in insertion order.
DictField_collect(keys, results) ==
    IF Escapes(results, DOMAIN results) # {}
    THEN results[FirstEscape(keys, results)]
    ELSE IF Failed(results, DOMAIN results) = {} THEN None
    ELSE ErrorMap([k \in Failed(results, DOMAIN results) |->
                      [map |-> [v \in {"value"} |-> messages(results[k])]]])

RECURSIVE required_validate(_, _)

\* ListField._required_validate
ListField_required_validate(field, value) ==
    IF value = missing \/ ~HasRequiredValidate(field.inner) THEN None
    ELSE IF ~IsIterable(value) THEN PyError("TypeError")
    ELSE ListField_collect([i \in 1..Len(Iterate(value)) |->
                               required_validate(field.inner, Iterate(value)[i])])

\* DictField._required_validate
DictField_required_validate(field, value) ==
    IF value = missing \/ ~HasRequiredValidate(field.value_field) THEN None
    ELSE IF ~IsDict(value) THEN PyError("AttributeError")
    ELSE DictField_collect(value.keys,
                           [k \in DOMAIN value.d |->
                               required_validate(field.value_field, value.d[k])])

\* field._required_validate(value), by the field's class.
required_validate(field, value) ==
    CASE field.cls = "ListField" -> ListField_required_validate(field, value)
      [] field.cls = "DictField" -> DictField_required_validate(field, value)
      [] field.cls = "EmbeddedField" -> EmbeddedField_required_validate(field, value)

(***************************************************************************)
(* Validation of a field's value: the null check on raw input, the         *)
(* required check on the value a document holds.                           *)
(***************************************************************************)
Memory(v) == [v |-> v, world |-> "memory"]

\* field._validate_missing(obj)
ValidateMissing ==
    /\ Len(trail) < MaxOps
    /\ obj.world = "input"
    /\ fld' = validate_missing_field(fld, obj.v)
    /\ trail' = Append(trail, Call("validate_missing", "obj", obj.v,
                                   field_validate_missing(fld, obj.v)))
    /\ UNCHANGED <<obj, cacheVars>>

\* field._required_validate(obj)
RequiredValidate ==
    /\ Len(trail) < MaxOps
    /\ obj.world = "memory"
    /\ HasRequiredValidate(fld)
    /\ trail' = Append(trail, Call("required_validate", "obj", obj.v,
                                   required_validate(fld, obj.v)))
    /\ UNCHANGED <<fld, obj, cacheVars>>

NextValidate ==
    \/ ValidateMissing
    \/ RequiredValidate

RequiredField(cls, allow_none) == [cls |-> cls, allow_none |-> allow_none, required |-> TRUE]

Instances ==
    {EmbeddedDocument("Base", d) : d \in UNION {[K -> {Int_(1)}] : K \in SUBSET {"x", "b"}}}
        \cup {EmbeddedDocument("Plain", [b \in {} |-> None])}
TrackedLists(elements) ==
    UNION {{List(items) : items \in [1..n -> elements]} : n \in 0..MaxLen}
TrackedDicts(values) == UNION {UNION {Dicts(d) : d \in [K -> values]} : K \in SUBSET Keys}
ShortLists == {List(<<>>)} \cup {List(<<e>>) : e \in Instances}

\* Each field with the values a document can hold for it; an element field
\* that allows none holds None as well.
RequiredCases ==
    ({ListFieldOf(EmbeddedFieldOf("Base"))} \X (TrackedLists(Instances) \cup {missing}))
    \cup ({ListFieldOf(ListFieldOf(EmbeddedFieldOf("Base")))}
              \X (TrackedLists(ShortLists) \cup {missing}))
    \cup ({ListFieldOf(Field("IntField", FALSE))}
              \X (TrackedLists({Int_(1)}) \cup {missing}))
    \cup ({DictFieldOf(EmbeddedFieldOf("Base"))} \X (TrackedDicts(Instances) \cup {missing}))
    \cup ({DictFieldOf(ListFieldOf(EmbeddedFieldOf("Base")))}
              \X (TrackedDicts(ShortLists) \cup {missing}))
    \cup ({DictFieldOf(None)} \X (TrackedDicts({Int_(1)}) \cup {missing}))
    \cup ({ListFieldOf(NullableEmbeddedFieldOf("Base"))}
              \X TrackedLists(Instances \cup {None}))
    \cup ({DictFieldOf(NullableEmbeddedFieldOf("Base"))}
              \X TrackedDicts(Instances \cup {None}))

NullableRecords == UNION {[K -> {Int_(1), None}] : K \in SUBSET {"x", "y"}}
NestedRecords ==
    {[n \in {"e"} |-> PlainDictIn(<<"x", "y">>, d)] : d \in NullableRecords}
        \cup {[n \in {"x", "e"} |-> IF n = "x" THEN None ELSE PlainDictIn(<<"x", "y">>, d)] :
                 d \in NullableRecords}
        \cup {[n \in {"e"} |-> None], [n \in {"x", "e"} |-> None]}
        \cup {[n \in K |-> IF n = "g" THEN g ELSE None] :
                 K \in {{"g"}, {"x", "g"}, {"g", "e"}, {"x", "g", "e"}},
                 g \in {None, PlainDict(<<>>, EmptyDict)}}

\* Each field with raw inputs of every shape: a field on Base, a field on
\* Plain, whose schema nests a field on a document that is not registered,
\* and a field on that document.
MissingCases ==
    ({Field("IntField", a) : a \in BOOLEAN} \cup {RequiredField("IntField", a) : a \in BOOLEAN})
        \X {None, missing, Int_(1)}
    \cup ({EmbeddedFieldOf("Base"), NullableEmbeddedFieldOf("Base")}
              \X ({None, missing, Str("junk"), PlainList(<<>>), EmbeddedDocument("A", [x |-> None])}
                      \cup UNION {PlainDicts(d) : d \in NullableRecords}
                      \cup UNION {Dicts(d) : d \in NullableRecords}))
    \cup ({EmbeddedFieldOf("Plain")} \X UNION {PlainDicts(d) : d \in NestedRecords})
    \cup ({EmbeddedFieldOf("Ghost"), NullableEmbeddedFieldOf("Ghost")}
              \X {None, missing, PlainDict(<<>>, EmptyDict)})

InitValidate ==
    /\ NoCache
    /\ \/ \E c \in RequiredCases : (fld = c[1] /\ obj = Memory(c[2]))
       \/ \E c \in MissingCases : (fld = c[1] /\ obj = Input(c[2]))
    /\ trail = <<>>

SpecValidate == InitValidate /\ [][NextValidate]_vars

RECURSIVE RequiredFails(_, _)
\* The value lacks a required field somewhere the required check descends
\* to; None lacks none.
RequiredFails(field, value) ==
    CASE field.cls = "EmbeddedField" ->
             /\ value.t = "EmbeddedDocument"
             /\ ~(required_fields(value.cls) \subseteq DOMAIN value.data)
      [] field.cls = "ListField" ->
             /\ HasRequiredValidate(field.inner)
             /\ \E k \in 1..Len(value.items) : RequiredFails(field.inner, value.items[k])
      [] field.cls = "DictField" ->
             /\ HasRequiredValidate(field.value_field)
             /\ \E k \in DOMAIN value.d : RequiredFails(field.value_field, value.d[k])
      [] OTHER -> FALSE

FailingIndices(field, value) ==
    IF value = missing \/ ~HasRequiredValidate(field.inner) THEN {}
    ELSE {k \in 1..Len(value.items) : RequiredFails(field.inner, value.items[k])}
FailingKeys(field, value) ==
    IF value = missing \/ ~HasRequiredValidate(field.value_field) THEN {}
    ELSE {k \in DOMAIN value.d : RequiredFails(field.value_field, value.d[k])}
IsErrorMap(v) == IsValidationError(v) /\ "messages" \in DOMAIN v

\* C11: the required check of a list or map field raises nothing when the
\* value is absent, the inner field has no required check, or no element
\* fails; otherwise it raises one keyed error whose entries are exactly the
\* failing elements, by 0-based index for a list and by key (each entry
\* itself keyed "value") for a map.
C11_EveryFailingElementReported ==
    \A i \in Calls("required_validate") :
        CASE fld.cls = "ListField" ->
                 IF FailingIndices(fld, trail[i].in) = {} THEN trail[i].out = None
                 ELSE /\ IsErrorMap(trail[i].out)
                      /\ DOMAIN trail[i].out.messages
                             = {k - 1 : k \in FailingIndices(fld, trail[i].in)}
          [] fld.cls = "DictField" ->
                 IF FailingKeys(fld, trail[i].in) = {} THEN trail[i].out = None
                 ELSE /\ IsErrorMap(trail[i].out)
                      /\ DOMAIN trail[i].out.messages = FailingKeys(fld, trail[i].in)
                      /\ \A k \in FailingKeys(fld, trail[i].in) :
                             /\ "map" \in DOMAIN trail[i].out.messages[k]
                             /\ DOMAIN trail[i].out.messages[k].map = {"value"}
          [] OTHER -> TRUE

\* The inner fields of an embedded field's schema that a keyed record holds
\* a value for; a document that is not registered has no schema.
InnerNames(field, value) ==
    IF field.embedded_document \notin RegisteredEmbeddedDocuments THEN {}
    ELSE {i \in 1..Len(embedded_schema_fields(field.embedded_document)) :
             embedded_schema_fields(field.embedded_document)[i][1] \in DOMAIN value.d}
InnerName(field, i) == embedded_schema_fields(field.embedded_document)[i][1]
InnerField(field, i) == embedded_schema_fields(field.embedded_document)[i][2]

RECURSIVE NullFails(_, _)
\* The value is None where none is not allowed, or is a keyed record holding
\* such a value under a declared inner name.
NullFails(field, value) ==
    \/ value = None /\ ~field.allow_none
    \/ /\ field.cls = "EmbeddedField"
       /\ IsDict(value)
       /\ \E i \in InnerNames(field, value) :
              NullFails(InnerField(field, i), value.d[InnerName(field, i)])

FailingNames(field, value) ==
    {InnerName(field, i) : i \in {j \in InnerNames(field, value) :
                                     NullFails(InnerField(field, j), value.d[InnerName(field, j)])}}

RECURSIVE Unregistered(_, _)
\* The check of the value reaches an embedded field whose document is not
\* registered: the field itself or, in a keyed record, the field of an inner
\* name the record holds, once the None test let the value through.
Unregistered(field, value) ==
    /\ field.cls = "EmbeddedField"
    /\ ~(value = None /\ ~field.allow_none)
    /\ \/ field.embedded_document \notin RegisteredEmbeddedDocuments
       \/ /\ IsDict(value) \/ IsEmbeddedInstance(value, field.embedded_document)
          /\ \E i \in 1..Len(embedded_schema_fields(field.embedded_document)) :
                 /\ get_sub_value(value, InnerName(field, i)) # missing
                 /\ Unregistered(InnerField(field, i),
                                 get_sub_value(value, InnerName(field, i)))

WrongShape(value) ==
    value \notin {None, missing} /\ ~IsDict(value) /\ value.t # "EmbeddedDocument"

\* What the null check of a field is to do with a value: raise exactly for
\* None on a field that does not allow none and never for an absent value;
\* on an embedded field given a keyed record, raise one error keyed by
\* exactly the declared inner names present in the record whose own null
\* check fails; raise nothing for a value of the wrong shape.
NullChecked(field, in, out) ==
    /\ in = missing => out = None
    /\ in = None => (IsError(out) <=> ~field.allow_none)
    /\ field.cls # "EmbeddedField" => (IsError(out) <=> (in = None /\ ~field.allow_none))
    /\ (field.cls = "EmbeddedField" /\ WrongShape(in)) => out = None
    /\ (field.cls = "EmbeddedField" /\ IsDict(in)) =>
           IF FailingNames(field, in) = {} THEN out = None
           ELSE /\ IsErrorMap(out)
                /\ DOMAIN out.messages = FailingNames(field, in)

\* C17: the null check raises exactly for None on a field that does not
\* allow none and never for an absent value; on an embedded field given a
\* keyed record it checks every declared inner field present in the record
\* and raises one error keyed by exactly the names whose own null check
\* fails, and it raises nothing for a value of the wrong shape.
C17_NullCheck ==
    \A i \in Calls("validate_missing") : NullChecked(fld, trail[i].in, trail[i].out)

\* C17, amended: the same, unless the check reaches an embedded field whose
\* document is not registered; then NotRegisteredDocumentError leaves the
\* check at once, whatever failures were collected and whether or not the
\* value is absent.
C17_NullCheckUnlessUnregistered ==
    \A i \in Calls("validate_missing") :
        IF Unregistered(fld, trail[i].in)
        THEN trail[i].out = PyError("NotRegisteredDocumentError")
        ELSE NullChecked(fld, trail[i].in, trail[i].out)

\* An embedded field checked a record in which two inner fields fail, one of
\* them through its own nested record, and both names were reported.
C17_Witness ==
    \E i \in Calls("validate_missing") :
        /\ fld.cls = "EmbeddedField"
        /\ IsDict(trail[i].in)
        /\ DOMAIN trail[i].in.d = {"x", "e"}
        /\ IsDict(trail[i].in.d["e"])
        /\ IsErrorMap(trail[i].out)
        /\ DOMAIN trail[i].out.messages = {"x", "e"}

(***************************************************************************)
(* None and missing at the storage boundary. A document hands the value it *)
(* holds to serialize_to_mongo and a stored value to deserialize_from_mongo.*)
(***************************************************************************)
\* field.serialize_to_mongo(obj)
SerializeToMongoObj ==
    /\ Len(trail) < MaxOps
    /\ obj.world = "memory"
    /\ trail' = Append(trail, CodecCall("serialize_to_mongo", "obj", fld, obj.v,
                                        serialize_to_mongo(fld, obj.v)))
    /\ UNCHANGED <<fld, obj, cacheVars>>

NextBoundary ==
    \/ SerializeToMongoObj
    \/ SerializeToMongo
    \/ DeserializeFromMongoObj
    \/ DeserializeFromMongoLast

Nullable(field) == [field EXCEPT !.allow_none = TRUE]
BoundaryScalars ==
    {Field("IntegerField", FALSE), Field("DecimalField", FALSE), Field("DateField", FALSE)}
MemoryOf(field) ==
    CASE field.cls = "IntegerField" -> {Int_(1)}
      [] field.cls = "DecimalField" -> {Decimal(15, -2)}
      [] field.cls = "DateField" -> {Date(d) : d \in Days}
BoundaryStoredOf(field) == {serialize_to_mongo(field, v).ret : v \in MemoryOf(field)}

BoundaryInner == BoundaryScalars \cup {Nullable(f) : f \in BoundaryScalars}
BoundaryLists ==
    {ListFieldOf(g) : g \in BoundaryInner} \cup {Nullable(ListFieldOf(g)) : g \in BoundaryInner}
\* A map field with and without a key field; a key field is a string field.
BoundaryDicts ==
    {DictFieldOf(g) : g \in BoundaryInner} \cup {Nullable(DictFieldOf(g)) : g \in BoundaryInner}
    \cup {KeyedDictFieldOf(Field("StringField", a), g) : a \in BOOLEAN, g \in BoundaryInner}

\* An embedded field, alone and as the inner field of a list, with an
\* instance and with a tracked Dict, which has a to_mongo of its own.
BoundaryEmbedded ==
    {<<g, v>> : g \in {EmbeddedFieldOf("Base"), NullableEmbeddedFieldOf("Base")},
                v \in {EmbeddedDocument("Base", [k \in {"x"} |-> Int_(1)]),
                       Dict(<<"x">>, [k \in {"x"} |-> Int_(1)]), None, missing}}
    \cup {<<ListFieldOf(g), List(<<EmbeddedDocument("Base", [k \in {"x"} |-> Int_(1)]),
                                   Dict(<<"x">>, [k \in {"x"} |-> Int_(1)]), None>>)>> :
              g \in {EmbeddedFieldOf("Base"), NullableEmbeddedFieldOf("Base")}}

\* Each field, with and without allow_none, and the values a document holds
\* for it: None, missing, proper values, containers with None elements.
BoundaryMemory ==
    UNION {{<<g, v>> : v \in MemoryOf(g) \cup {None, missing}} : g \in BoundaryInner}
    \cup UNION {{<<c, v>> : v \in TrackedLists(MemoryOf(c.inner) \cup {None}) \cup {None, missing}} :
                   c \in BoundaryLists}
    \cup UNION {{<<c, v>> : v \in TrackedDicts(MemoryOf(c.value_field) \cup {None})
                                     \cup {None, missing}} : c \in BoundaryDicts}
    \cup BoundaryEmbedded

\* Each field and the values storage holds for it.
BoundaryStorage ==
    UNION {{<<g, v>> : v \in BoundaryStoredOf(g) \cup {None}} : g \in BoundaryInner}
    \cup UNION {{<<c, PlainList(v.items)>> :
                     v \in TrackedLists(BoundaryStoredOf(c.inner) \cup {None})}
                   \cup {<<c, None>>} : c \in BoundaryLists}
    \cup UNION {{<<c, PlainDict(v.keys, v.d)>> :
                     v \in TrackedDicts(BoundaryStoredOf(c.value_field) \cup {None})}
                   \cup {<<c, None>>} : c \in BoundaryDicts}

InitBoundary ==
    /\ NoCache
    /\ \/ \E c \in BoundaryMemory : (fld = c[1] /\ obj = Memory(c[2]))
       \/ \E c \in BoundaryStorage : (fld = c[1] /\ obj = Stored(c[2]))
    /\ trail = <<>>

SpecBoundary == InitBoundary /\ [][NextBoundary]_vars

\* The invocation a wrapper makes itself: the first one entered, on the field
\* as it was when the wrapper was called (a decode may since have resolved
\* the field's target).
Handed(call) ==
    /\ call.calls # <<>>
    /\ call.calls[1].field = call.on
    /\ call.calls[1].arg = call.in
    /\ call.out = call.calls[1].ret

\* C12: serialize_to_mongo returns None for None on a field that allows none
\* and missing for missing, invoking nothing, and otherwise hands the value
\* to the field's _serialize_to_mongo and returns what that returns;
\* deserialize_from_mongo returns None for None on a field that allows none,
\* invoking nothing, and otherwise hands the value to _deserialize_from_mongo
\* and returns what that returns. Among all the invocations made, those for
\* the keys and elements of containers included, no _serialize_to_mongo is
\* given missing and neither of the two is given None by a field that
\* allows none.
C12_NoneAndMissingShortCircuit ==
    \A i \in 1..Len(trail) :
        /\ trail[i].op = "serialize_to_mongo" =>
               /\ (trail[i].in = None /\ fld.allow_none)
                      => (trail[i].out = None /\ trail[i].calls = <<>>)
               /\ trail[i].in = missing => (trail[i].out = missing /\ trail[i].calls = <<>>)
               /\ ~(trail[i].in = None /\ fld.allow_none) /\ trail[i].in # missing
                      => Handed(trail[i])
               /\ \A c \in 1..Len(trail[i].calls) :
                      /\ trail[i].calls[c].arg # missing
                      /\ ~(trail[i].calls[c].arg = None /\ trail[i].calls[c].field.allow_none)
        /\ trail[i].op = "deserialize_from_mongo" =>
               /\ (trail[i].in = None /\ fld.allow_none)
                      => (trail[i].out = None /\ trail[i].calls = <<>>)
               /\ ~(trail[i].in = None /\ fld.allow_none) => Handed(trail[i])
               /\ \A c \in 1..Len(trail[i].calls) :
                      ~(trail[i].calls[c].arg = None /\ trail[i].calls[c].field.allow_none)

\* A list holding None and a proper value was encoded by a list field whose
\* inner field allows none: None came through at its position, and the
\* encoders invoked were the list's and, for the proper value, the inner one.
C12_Witness ==
    \E i \in Calls("serialize_to_mongo") :
        /\ fld.cls = "ListField"
        /\ fld.inner.allow_none
        /\ IsList(trail[i].in)
        /\ Len(trail[i].in.items) = 2
        /\ trail[i].in.items[1] = None
        /\ trail[i].in.items[2] # None
        /\ IsList(trail[i].out)
        /\ trail[i].out.items[1] = None
        /\ trail[i].out.items[2] # None
        /\ Len(trail[i].calls) = 2
        /\ trail[i].calls[2].field = fld.inner
        /\ trail[i].calls[2].arg = trail[i].in.items[2]

(***************************************************************************)
(* The generic reference field on keyed records.                           *)
(***************************************************************************)
Unparsable(id) == id.t # "ObjectId"
UnknownType(cls) == ~(cls.t = "str" /\ cls.s \in RegisteredDocuments)
IsRecordInput(v) == v # None /\ IsDict(v)

\* C13: a generic reference field answers a keyed record whose keys are not
\* exactly cls and id, whose id does not parse or whose cls is not registered
\* with a validation error, as it does any value that is no reference,
\* document or keyed record; a well-formed record gives
\* Reference(registered type, parsed id).
C13_MalformedRecordRefused ==
    \A i \in Calls("deserialize") :
        fld.cls = "GenericReferenceField" =>
            /\ (IsRecordInput(trail[i].in) /\ DOMAIN trail[i].in.d # {"cls", "id"}) =>
                   IsValidationError(trail[i].out)
            /\ (IsRecordInput(trail[i].in) /\ DOMAIN trail[i].in.d = {"cls", "id"}) =>
                   IF Unparsable(trail[i].in.d["id"]) \/ UnknownType(trail[i].in.d["cls"])
                   THEN IsValidationError(trail[i].out)
                   ELSE trail[i].out = Reference(fld.reference_cls, trail[i].in.d["cls"].s,
                                                 trail[i].in.d["id"])
            /\ (trail[i].in # None
                /\ trail[i].in.t \notin {"dict", "Dict", "Reference", "Document"}) =>
                   IsValidationError(trail[i].out)

(***************************************************************************)
(* Schema traversal. A schema's fields are a sequence of (name, field)     *)
(* pairs in declaration order; an embedded field carries the fields of its *)
(* embedded document's schema. A dotted path is the sequence of its        *)
(* segments, '%s.%s' % (path, name) appends one. attribute "" is unset.    *)
(***************************************************************************)
Leaf(attribute) == [cls |-> "IntegerField", attribute |-> attribute]
ListOver(inner, attribute) == [cls |-> "ListField", attribute |-> attribute, inner |-> inner]
DictOver(value_field, attribute) ==
    [cls |-> "DictField", attribute |-> attribute, value_field |-> value_field]
EmbeddedOver(fields, attribute) ==
    [cls |-> "EmbeddedField", attribute |-> attribute, fields |-> fields]

\* field.attribute or name
attribute_or(field, name) == IF field.attribute # "" THEN field.attribute ELSE name

\* One call func(mongo_path, path, field).
Visit(mongo_path, path, field) == [mongo_path |-> mongo_path, path |-> path, field |-> field]

\* hasattr(field, 'map_to_field'): ListField and EmbeddedField define it.
HasMapToField(field) == field.cls \in {"ListField", "EmbeddedField"}

RECURSIVE field_map_to_field(_, _, _)
RECURSIVE EmbeddedField_map_from(_, _, _, _)

\* ListField.map_to_field: the calls of func it makes, in order.
ListField_map_to_field(field, mongo_path, path) ==
    <<Visit(mongo_path, path, field.inner)>>
        \o (IF HasMapToField(field.inner)
            THEN field_map_to_field(field.inner, mongo_path, path) ELSE <<>>)

\* The loop of EmbeddedField.map_to_field from the i-th inner field on.
EmbeddedField_map_from(fields, i, mongo_path, path) ==
    IF i > Len(fields) THEN <<>>
    ELSE <<Visit(Append(mongo_path, attribute_or(fields[i][2], fields[i][1])),
                 Append(path, fields[i][1]), fields[i][2])>>
         \o (IF HasMapToField(fields[i][2])
             THEN field_map_to_field(fields[i][2],
                                     Append(mongo_path, attribute_or(fields[i][2], fields[i][1])),
                                     Append(path, fields[i][1]))
             ELSE <<>>)
         \o EmbeddedField_map_from(fields, i + 1, mongo_path, path)

\* EmbeddedField.map_to_field
EmbeddedField_map_to_field(field, mongo_path, path) ==
    EmbeddedField_map_from(field.fields, 1, mongo_path, path)

\* field.map_to_field(mongo_path, path, func), by the field's class.
field_map_to_field(field, mongo_path, path) ==
    IF field.cls = "ListField" THEN ListField_map_to_field(field, mongo_path, path)
    ELSE EmbeddedField_map_to_field(field, mongo_path, path)

RECURSIVE BaseSchema_map_from(_, _)
\* The loop of BaseSchema.map_to_field from the i-th field on.
BaseSchema_map_from(fields, i) ==
    IF i > Len(fields) THEN <<>>
    ELSE <<Visit(<<attribute_or(fields[i][2], fields[i][1])>>, <<fields[i][1]>>, fields[i][2])>>
         \o (IF HasMapToField(fields[i][2])
             THEN field_map_to_field(fields[i][2],
                                     <<attribute_or(fields[i][2], fields[i][1])>>,
                                     <<fields[i][1]>>)
             ELSE <<>>)
         \o BaseSchema_map_from(fields, i + 1)

\* BaseSchema.map_to_field: the calls of func, in order.
BaseSchema_map_to_field(fields) == BaseSchema_map_from(fields, 1)

\* schema.map_to_field(func)
MapToField ==
    /\ trail = <<>>
    /\ obj.world = "schema"
    /\ trail' = <<Call("map_to_field", "obj", obj.v, BaseSchema_map_to_field(obj.v))>>
    /\ UNCHANGED <<fld, obj, cacheVars>>

NextTraverse == MapToField

MaxDepth == 2
Attributes == {"", "_s"}
RECURSIVE FieldsOfDepth(_)
\* The fields nested at most d deep.
FieldsOfDepth(d) ==
    IF d = 0 THEN {Leaf(a) : a \in Attributes}
    ELSE FieldsOfDepth(d - 1)
         \cup {ListOver(f, "") : f \in FieldsOfDepth(d - 1)}
         \cup {DictOver(f, "") : f \in FieldsOfDepth(d - 1)}
         \cup {EmbeddedOver(<<<<"p", f>>, <<"q", Leaf("")>>>>, a) :
                  f \in FieldsOfDepth(d - 1), a \in Attributes}
Schemas ==
    {<<<<"a", f>>>> : f \in FieldsOfDepth(MaxDepth)}
        \cup {<<<<"a", f>>, <<"b", Leaf("")>>>> : f \in FieldsOfDepth(MaxDepth)}

InitTraverse ==
    /\ NoCache
    /\ fld = None
    /\ obj \in {[v |-> sch, world |-> "schema"] : sch \in Schemas}
    /\ trail = <<>>

SpecTraverse == InitTraverse /\ [][NextTraverse]_vars

\* A field of the schema where it sits, with the visit owed to its parent.
Occurrence(mongo_path, path, field, parent) ==
    [mongo_path |-> mongo_path, path |-> path, field |-> field, parent |-> parent]

RECURSIVE NestedIn(_, _, _)
\* The fields nested in a field at any depth: the inner field of a list and
\* the value field of a map at the paths of their parent, the fields of an
\* embedded schema at the dot-joined paths.
NestedIn(field, mongo_path, path) ==
    CASE field.cls = "ListField" ->
             {Occurrence(mongo_path, path, field.inner, Visit(mongo_path, path, field))}
                 \cup NestedIn(field.inner, mongo_path, path)
      [] field.cls = "DictField" ->
             {Occurrence(mongo_path, path, field.value_field, Visit(mongo_path, path, field))}
                 \cup NestedIn(field.value_field, mongo_path, path)
      [] field.cls = "EmbeddedField" ->
             UNION {{Occurrence(Append(mongo_path, attribute_or(field.fields[i][2], field.fields[i][1])),
                                Append(path, field.fields[i][1]), field.fields[i][2],
                                Visit(mongo_path, path, field))}
                        \cup NestedIn(field.fields[i][2],
                                      Append(mongo_path, attribute_or(field.fields[i][2], field.fields[i][1])),
                                      Append(path, field.fields[i][1])) :
                       i \in 1..Len(field.fields)}
      [] OTHER -> {}

Reachable(fields) ==
    UNION {{Occurrence(<<attribute_or(fields[i][2], fields[i][1])>>, <<fields[i][1]>>,
                       fields[i][2], None)}
               \cup NestedIn(fields[i][2], <<attribute_or(fields[i][2], fields[i][1])>>,
                             <<fields[i][1]>>) : i \in 1..Len(fields)}

VisitOf(r) == Visit(r.mongo_path, r.path, r.field)

\* C14: the traversal visits every field reachable from the schema (top-level
\* fields, inner fields of lists, value fields of maps, fields of embedded
\* schemas, at any depth) with the dot-joined storage and declared paths, and
\* visits a parent before the fields nested in it.
C14_EveryReachableFieldVisited ==
    \A c \in Calls("map_to_field") :
        \A r \in Reachable(trail[c].in) :
            \E j \in 1..Len(trail[c].out) :
                /\ trail[c].out[j] = VisitOf(r)
                /\ r.parent # None => \E k \in 1..(j - 1) : trail[c].out[k] = r.parent

(***************************************************************************)
(* Defaults of the list and map fields. Containers are objects with an     *)
(* identity: obj.heap holds them and a reference is an index into it.      *)
(* obj.docs gives, per document, the container it holds for the field      *)
(* (0: none yet).                                                          *)
(***************************************************************************)
NumDocs == 2
Docs == 1..NumDocs

\* List(inner, value) / Dict(key_field, value_field, value): a new tracked
\* container with the contents of value.
Tracked(cls, contents) ==
    [t |-> IF cls = "ListField" THEN "List" ELSE "Dict", contents |-> contents,
     modified |-> FALSE]

\* cast_value_or_callable in ListField.__init__ and DictField.__init__: the
\* field's default and the heap after it. A plain value is wrapped once, here;
\* a producer is wrapped in a lambda that wraps each value it produces.
cast_value_or_callable(cls, value, heap) ==
    CASE value.kind = "missing" -> [default |-> value, heap |-> heap]
      [] value.kind = "callable" ->
             [default |-> [kind |-> "callable", produces |-> value.produces], heap |-> heap]
      [] OTHER ->
             [default |-> [kind |-> "value", ref |-> Len(heap) + 1],
              heap |-> Append(heap, Tracked(cls, value.contents))]

\* The field and the heap after ListField(..., default=value) or
\* DictField(..., default=value): BaseField.__init__ passes the default on as
\* missing too, and the container's __init__ casts self.default and then
\* self.missing, each into a container of its own.
ContainerField_init(cls, value) ==
    [fld |-> [cls |-> cls, allow_none |-> FALSE,
              default |-> cast_value_or_callable(cls, value, <<>>).default,
              missing |-> cast_value_or_callable(
                              cls, value,
                              cast_value_or_callable(cls, value, <<>>).heap).default],
     heap |-> cast_value_or_callable(
                  cls, value, cast_value_or_callable(cls, value, <<>>).heap).heap]

\* A document without a value for the field takes the field's default:
\* default() when it is callable, default itself otherwise.
TakeDefault(d) ==
    /\ Len(trail) < MaxOps
    /\ obj.world = "documents"
    /\ obj.docs[d] = 0
    /\ fld.default.kind # "missing"
    /\ IF fld.default.kind = "callable"
       THEN obj' = [obj EXCEPT !.heap = Append(@, Tracked(fld.cls, fld.default.produces)),
                               !.docs[d] = Len(obj.heap) + 1]
       ELSE obj' = [obj EXCEPT !.docs[d] = fld.default.ref]
    /\ trail' = Append(trail, Call("take_default", d, None, None))
    /\ UNCHANGED <<fld, cacheVars>>

\* The containers the documents other than d hold.
Others(o, d) == [e \in {x \in Docs \ {d} : o.docs[x] # 0} |-> o.heap[o.docs[e]]]

\* list.append(x) / dict[k] = x on a tracked container: the contents change
\* and the container is marked modified.
Mutated(container, k, x) ==
    [container EXCEPT
        !.contents = IF container.t = "List" THEN Append(@, x)
                     ELSE [j \in DOMAIN @ \cup {k} |-> IF j = k THEN x ELSE @[j]],
        !.modified = TRUE]

\* Document d mutates the container it holds. The call is recorded with the
\* other documents' containers before and after it.
Mutate(d) ==
    /\ Len(trail) < MaxOps
    /\ obj.world = "documents"
    /\ obj.docs[d] # 0
    /\ \E k \in Keys :
           /\ obj' = [obj EXCEPT !.heap[obj.docs[d]] = Mutated(@, k, Int_(1))]
           /\ trail' = Append(trail, Call("mutate", d, Others(obj, d), Others(obj', d)))
    /\ UNCHANGED <<fld, cacheVars>>

NextDefault == \E d \in Docs : TakeDefault(d) \/ Mutate(d)

PlainDefault(contents) == [kind |-> "value", contents |-> contents]
Producer(contents) == [kind |-> "callable", produces |-> contents]
DeclaredDefaults(cls) ==
    IF cls = "ListField"
    THEN {PlainDefault(c) : c \in {<<>>, <<Int_(7)>>}} \cup {Producer(c) : c \in {<<>>, <<Int_(7)>>}}
    ELSE {PlainDefault(c) : c \in {EmptyDict, [k \in {"a"} |-> Int_(7)]}}
             \cup {Producer(c) : c \in {EmptyDict, [k \in {"a"} |-> Int_(7)]}}

InitDefault ==
    /\ NoCache
    /\ \E cls \in {"ListField", "DictField"} : \E v \in DeclaredDefaults(cls) :
           /\ fld = ContainerField_init(cls, v).fld
           /\ obj = [world |-> "documents", heap |-> ContainerField_init(cls, v).heap,
                     docs |-> [d \in Docs |-> 0]]
    /\ trail = <<>>

SpecDefault == InitDefault /\ [][NextDefault]_vars

\* C15: the default a document takes is a tracked container, and a mutation
\* by one document leaves the contents and the modified flag of the
\* containers the other documents hold as they were.
C15_DefaultOwnedByOneDocument ==
    /\ \A d \in Docs :
           obj.docs[d] # 0 => obj.heap[obj.docs[d]].t = (IF fld.cls = "ListField" THEN "List" ELSE "Dict")
    /\ \A i \in Calls("mutate") : trail[i].in = trail[i].out

(***************************************************************************)
(* Lazy resolution of the target of a reference or embedded field declared *)
(* by name. The field starts unresolved; any call may come first.          *)
(***************************************************************************)
\* The field as its document's schema holds it, for the schema builders.
AsSchemaField(field) ==
    [name |-> "", cls |-> "EmbeddedField", attribute |-> "", required |-> FALSE,
     allow_none |-> field.allow_none, embedded_schema |-> field._embedded_document_cls]

\* The fields a schema declares that are embedded fields. No operation here
\* hands them a value, so their private slots are as __init__ left them.
UnresolvedInner(s) ==
    {i \in 1..Len(SchemaFields(s)) : SchemaFields(s)[i].cls = "EmbeddedField"}

\* EmbeddedField.as_marshmallow_field() with no argument: the nested schema
\* is read from the private slot _embedded_document_cls, not from the
\* property, here and in every embedded field the nested schema declares; the
\* nested as_marshmallow_schema call stores the schema it builds. The first
\* field read unresolved ends the call before anything is stored.
EmbeddedField_projection(st, field) ==
    IF field._embedded_document_cls = "" THEN [st |-> st, ma |-> PyError("AttributeError")]
    ELSE IF UnresolvedInner(field._embedded_document_cls) # {}
    THEN [st |-> st, ma |-> PyError("AttributeError")]
    ELSE EmbeddedField_as_marshmallow_field(st, AsSchemaField(field), None, "MaSchema",
                                            TRUE, FALSE)

\* field.as_marshmallow_field() on an embedded field
AsMarshmallowField ==
    /\ Len(trail) < MaxOps
    /\ fld.cls = "EmbeddedField"
    /\ trail' = Append(trail, Call("as_marshmallow_field", "obj", None,
                                   EmbeddedField_projection(
                                       [cache |-> cache, nextId |-> nextId], fld).ma))
    /\ cache' = EmbeddedField_projection([cache |-> cache, nextId |-> nextId], fld).st.cache
    /\ nextId' = EmbeddedField_projection([cache |-> cache, nextId |-> nextId], fld).st.nextId
    /\ UNCHANGED <<fld, obj, schemaCache, calls, threads>>

NextResolve ==
    \/ NextField
    \/ AsMarshmallowField

InitResolve ==
    /\ NoCache
    /\ \/ /\ fld \in {ReferenceFieldOf("T", rc) : rc \in ReferenceClasses}
          /\ obj \in {Input(v) : v \in ReferenceInputs} \cup {Stored(v) : v \in Identifiers}
       \/ /\ fld \in {EmbeddedFieldOf("Base"), EmbeddedFieldOf("Plain")}
          /\ obj \in {Input(v) : v \in EmbeddedInputs}
                         \cup {Stored(PlainDictIn(DeclaredNames, d)) : d \in Payloads}
    /\ trail = <<>>

SpecResolve == InitResolve /\ [][NextResolve]_vars

\* The resolved-type cache of the field.
ResolvedType(field) ==
    IF field.cls = "ReferenceField" THEN field._document_cls ELSE field._embedded_document_cls

\* A read of the cache while it holds None ends in AttributeError.
UnresolvedRead(call) ==
    /\ call.op \in {"deserialize", "deserialize_from_mongo", "as_marshmallow_field"}
    /\ call.out = PyError("AttributeError")

\* C16: whatever operation comes first on a field declared by target name,
\* no operation reads the resolved-type cache while it is unresolved; and
\* once resolved, the resolved type never changes.
C16_ResolvedBeforeFirstRead ==
    /\ [](\A i \in 1..Len(trail) : ~UnresolvedRead(trail[i]))
    /\ [][ResolvedType(fld) # "" => ResolvedType(fld') = ResolvedType(fld)]_vars

(***************************************************************************)
(* The caller's record across decodes by an embedded field.                *)
(***************************************************************************)
ObjDecodes == {i \in Calls("deserialize") : trail[i].src = "obj"}

\* C18: an embedded field's _deserialize leaves the record it was given as it
\* was, discriminator key included, so that every decode of the caller's
\* record is given the same record and returns the same result, an instance
\* of the same concrete subtype.
C18_DecodeLeavesRecordUnchanged ==
    fld.cls = "EmbeddedField" =>
        /\ \A i \in ObjDecodes : obj.v = trail[i].in
        /\ \A i \in ObjDecodes : \A j \in ObjDecodes : trail[i].out = trail[j].out

====
